---- MODULE Spec2Model ----
(***************************************************************************)
(* Model of the back-testing engine of a_stock_web_app.py: the day-by-day  *)
(* strategy loop over the bar table hist_data (risk-management check,      *)
(* signal generation for the three signal types, position sizing).         *)
(*                                                                         *)
(* Numbers.  The program computes in binary floating point; the model      *)
(* computes the same quantities exactly, as scaled integers:               *)
(*   - prices (close, buy price, MA, bands) are integers;                  *)
(*   - percentages and position fractions are in 1/Scale (per mille);      *)
(*   - the three stop levels are stored multiplied by Scale, so            *)
(*     close * (1 - stop_loss) is close * (Scale - stop_loss);             *)
(*   - scores are in 1/ScoreScale, so 1/3 is 100 and 0.5 is 150.           *)
(* The values the model draws were chosen so that every float comparison   *)
(* of the program has the same outcome as the exact comparison.            *)
(*                                                                         *)
(* The table.  Iteration i of the loop reads row i-1 and row i only (and   *)
(* the ATR column of rows i-20..i-1), so the state holds row i-1 (prev),   *)
(* row i (cur) and the ATR column; the rows of the table are drawn one     *)
(* at a time as the loop reaches them.                                     *)
(*                                                                         *)
(* Two specifications.  Spec is the strategy loop alone under every        *)
(* configuration, the table being drawn as far as the loop goes.  RunSpec  *)
(* is the whole back-test of one table: validation, coercion, indicators,  *)
(* the loop, transaction costs, returns and the benchmark columns; it      *)
(* keeps the columns of every                                              *)
(* row that the steps after the loop read (tbl), the columns hist_data     *)
(* has (cols) and the errors shown (msgs), under fewer configurations.     *)
(* In Spec the variables of RunSpec stay at their idle values.             *)
(*                                                                         *)
(* Two more specifications apply functions of the program to inputs drawn  *)
(* from bounded sets: KellySpec the two position-sizing functions (kelly), *)
(* MCSpec the Monte Carlo loop, run twice on the same series (mc).         *)
(* PortfolioSpec is the portfolio loop over a list of stock codes (pf).    *)
(* FundSpec is the advisory filter on one answer of the provider and then  *)
(* the score of the iterations, each on an answer of its own; an answer    *)
(* holds numbers or whole columns (fsnap).                                 *)
(* AnalyticsSpec computes the performance figures of one table (perf).     *)
(* WindowSpec is the loop from day 19 on, where the ATR window fills.      *)
(* AtrSpec applies calculate_atr to one series of bars (ta).               *)
(* RetrySpec is one call of get_stock_data_with_retry (fetch).             *)
(* RoundingSpec is the risk check of the day after an entry, with the      *)
(* rounding of its floating-point expressions (rk).                        *)
(* ScenarioSpec is the loop in crossover mode on tables whose closes never *)
(* fall and never reach a take-profit level; it keeps every row in tbl.    *)
(***************************************************************************)
EXTENDS Integers, Sequences, FiniteSets, TLC

VARIABLES cfg, pc, i, prev, cur, atr,
          raw, nrows, cols, msgs, tbl, acct,
          kelly, mc, pf, perf, ta, fsnap, fetch, rk

loopVars == <<cfg, pc, i, prev, cur, atr>>
runVars == <<raw, nrows, cols, msgs, tbl, acct>>
fnVars == <<kelly, mc, pf, perf, ta, fsnap, fetch, rk>>
vars == <<cfg, pc, i, prev, cur, atr, raw, nrows, cols, msgs, tbl, acct, kelly, mc,
         pf, perf, ta, fsnap, fetch, rk>>

(* ------------------------------ bounds -------------------------------- *)

\* the loop index of the last row a run can have
MaxDays == 3
\* the Monte Carlo loop: at most MaxSims simulations of a return series of
\* at most MaxReturns days
MaxSims == 3
MaxReturns == 3
\* the outputs of a generator that are computed once and kept
StreamLen == 16
\* the days of the loop followed once the ATR window of 20 days is full
MaxWindowDays == 2
\* the longest series of bars given to calculate_atr
MaxBars == 3
\* the largest max_retries given to get_stock_data_with_retry
MaxRetries == 3

(* ------------------------- program constants -------------------------- *)

Scale == 1000
ScoreScale == 300
\* initial_capital, default 100.0 * 10000
initial_capital == 1000000
\* risk_per_trade, default 2.0 / 100
risk_per_trade == 20
\* the rows of the ATR column averaged by the ATR score
AtrLookback == 20
\* the least number of bars a run accepts
MinBars == 50
\* returns are in 1/RetScale, a common multiple of the closes, so that
\* pct_change is exact; cost rates are in 1/CostScale; strategy and net
\* returns are in 1/NetScale
RetScale == 1700
CostScale == 100000
NetScale == RetScale * Scale
\* commission_rate 0.1 / 100, slippage_rate 0.05 / 100, stamp_tax_rate 0.1 / 100
commission_rate == 100
slippage_rate == 50
stamp_tax_rate == 100

Min(a, b) == IF a < b THEN a ELSE b
Max(a, b) == IF a > b THEN a ELSE b

RECURSIVE SeqSum(_)
SeqSum(s) == IF s = <<>> THEN 0 ELSE Head(s) + SeqSum(Tail(s))

(* ---------------------------- configuration --------------------------- *)

SignalTypes == {"crossover", "trend", "multifactor"}
SizingMethods == {"fixed", "kelly", "riskparity"}

\* two settings of the risk-management inputs, each within the ranges of the
\* number inputs: the first is the defaults but for the maximum position
RiskProfiles ==
    { [stop_loss |-> 100, take_profit |-> 300, max_drawdown_limit |-> 200,
       trailing_stop_percent |-> 100, max_position_size |-> 800],
      [stop_loss |-> 300, take_profit |-> 1000, max_drawdown_limit |-> 100,
       trailing_stop_percent |-> 200, max_position_size |-> 100] }

\* the thresholds of the fundamental filter, cash flow in tenths: the
\* defaults of the four number inputs, and the defaults but for a minimum
\* revenue growth of 11, above the 10 that get_fundamental_data falls back to
DefaultThresholds ==
    [ min_roe |-> 15, min_revenue_growth |-> 10, min_profit_growth |-> 15,
      min_cash_flow |-> 10 ]
FundThresholds ==
    { DefaultThresholds, [DefaultThresholds EXCEPT !.min_revenue_growth = 11] }

\* the thresholds are read only when the filter is enabled
Configs ==
    { c \in [ signal_type : SignalTypes,
              enable_trailing_stop : BOOLEAN,
              position_sizing_method : SizingMethods,
              enable_fundamental_filter : BOOLEAN,
              thresholds : FundThresholds,
              risk : RiskProfiles ] :
        ~c.enable_fundamental_filter => c.thresholds = DefaultThresholds }

(* ------------------------------- inputs ------------------------------- *)

Closes == {50, 85, 100}
\* (MA_fast, MA_slow) of a row: below, equal, above
MAPairs == {<<9, 10>>, <<10, 10>>, <<11, 10>>}
\* (BB_lower, BB_upper) of a row: a band holding every close, and a band
\* whose lower edge is the highest close
Bands == {<<40, 140>>, <<100, 140>>}
\* A figure of the snapshot is a number, or the whole column of the
\* financial report (a Series), whose comparisons have no truth value.
Scalar(x) == [series |-> FALSE, v |-> x]
Series == [series |-> TRUE, v |-> 0]

\* the columns of the financial report that get_fundamental_data looks for
FundColumns == {"roe", "revenue_growth", "profit_growth", "cash_flow"}

\* the provider raises, or answers with a report holding some of the columns
ProviderError == [raises |-> TRUE, columns |-> {}]
Report(cs) == [raises |-> FALSE, columns |-> cs]

\* get_fundamental_data on an answer of the provider: a column that is present
\* is returned whole, a column that is absent gives its default (cash flow
\* in tenths), and the handler of a provider error returns the four defaults
get_fundamental_data(report) ==
    IF report.raises
    THEN [ roe |-> Scalar(15), revenue_growth |-> Scalar(10),
           profit_growth |-> Scalar(15), cash_flow |-> Scalar(10) ]
    ELSE [ roe |-> IF "roe" \in report.columns THEN Series ELSE Scalar(15),
           revenue_growth |->
               IF "revenue_growth" \in report.columns THEN Series ELSE Scalar(10),
           profit_growth |->
               IF "profit_growth" \in report.columns THEN Series ELSE Scalar(15),
           cash_flow |->
               IF "cash_flow" \in report.columns THEN Series ELSE Scalar(10) ]

\* the answers of the provider to the request of one iteration: an error, a
\* report with none of the columns, one with the profit growth only, one
\* with the ROE only, one with the four columns
ProviderAnswers ==
    { ProviderError } \cup
    { Report(cs) : cs \in { {}, {"profit_growth"}, {"roe"}, FundColumns } }

FundSnapshots == { get_fundamental_data(a) : a \in ProviderAnswers }
\* the ATR of row j
AtrValues(j) == IF j < AtrLookback THEN {1} ELSE {1, 2}

Inputs ==
    [ close : Closes, ma : MAPairs, band : Bands, fd : FundSnapshots ]

(* --------------------------- position sizing -------------------------- *)

\* variant: no early return for avg_loss = 0
calculate_kelly_position_NoGuard(win_rate, avg_win, avg_loss) ==
    IF avg_win = 0
    THEN [raised |-> TRUE, value |-> 0]
    ELSE LET kelly_fraction ==
                 (win_rate * avg_win - (Scale - win_rate) * avg_loss) \div avg_win
         IN  [raised |-> FALSE, value |-> Max(100, Min(900, kelly_fraction))]

\* calculate_kelly_position: arguments and result in 1/Scale.  raised is the
\* ZeroDivisionError of the division by avg_win.  The quotient is rounded
\* down to a whole 1/Scale.
calculate_kelly_position(win_rate, avg_win, avg_loss) ==
    IF avg_loss = 0
    THEN [raised |-> FALSE, value |-> 100]
    ELSE IF avg_win = 0
         THEN [raised |-> TRUE, value |-> 0]
         ELSE LET kelly_fraction ==
                      (win_rate * avg_win - (Scale - win_rate) * avg_loss) \div avg_win
              IN  [raised |-> FALSE, value |-> Max(100, Min(900, kelly_fraction))]

\* calculate_position_size: the amount of capital, in currency
calculate_position_size(method, win_rate, avg_win, avg_loss, risk, capital) ==
    IF method = "kelly"
    THEN LET k == calculate_kelly_position(win_rate, avg_win, avg_loss)
         IN  [raised |-> k.raised, value |-> (k.value * capital) \div Scale]
    ELSE IF method = "riskparity"
         THEN IF avg_loss = 0
              THEN [raised |-> TRUE, value |-> 0]
              ELSE [raised |-> FALSE, value |-> (capital * risk) \div avg_loss]
         ELSE [raised |-> FALSE, value |-> (capital * 500) \div Scale]

\* EntryPosition without the min() against max_position_size
EntryPosition_NoClamp(c) ==
    IF c.position_sizing_method = "kelly"
    THEN LET position_size ==
                 calculate_position_size("kelly", 500, 100, 50,
                                         risk_per_trade, initial_capital)
         IN  (position_size.value * Scale) \div initial_capital
    ELSE c.risk.max_position_size

\* the position fraction the loop records on a new entry (the same five
\* lines in each signal type)
EntryPosition(c) ==
    IF c.position_sizing_method = "kelly"
    THEN LET position_size ==
                 calculate_position_size("kelly", 500, 100, 50,
                                         risk_per_trade, initial_capital)
         IN  Min((position_size.value * Scale) \div initial_capital,
                 c.risk.max_position_size)
    ELSE c.risk.max_position_size

(* ------------------------------- scores ------------------------------- *)

ma_score(r) == IF r.MA_fast > r.MA_slow THEN 1 ELSE 0

bb_score(r) == IF r.close > r.BB_lower /\ r.close < r.BB_upper THEN 1 ELSE 0

\* col is the ATR column of rows 0..day (row j at col[j+1]); the mean of
\* rows day-20..day-1 is compared without dividing
\* variant: the window of the 21 rows day-21..day-1
atr_score_LongWindow(day, col) ==
    IF day > 20
    THEN LET window == SubSeq(col, day - AtrLookback, day)
         IN  IF col[day + 1] * Len(window) > SeqSum(window) THEN 1 ELSE 0
    ELSE IF day = 20
         THEN LET window == SubSeq(col, 1, day)
              IN  IF col[day + 1] * Len(window) > SeqSum(window) THEN 1 ELSE 0
         ELSE 0

atr_score(day, col) ==
    IF day >= 20
    THEN LET window == SubSeq(col, day - AtrLookback + 1, day)
         IN  IF col[day + 1] * Len(window) > SeqSum(window) THEN 1 ELSE 0
    ELSE 0

tech_score(r, day, col) ==
    ((ma_score(r) + bb_score(r) + atr_score(day, col)) * ScoreScale) \div 3

\* the outcome of an expression: the ValueError of the truth value of a
\* Series, or a value
Raised == [raised |-> TRUE, value |-> 0]
Returned(x) == [raised |-> FALSE, value |-> x]

\* the two growth rates of `a >= m and b >= n`: the right operand is
\* evaluated only when the left one is true, and a Series on the left, or
\* as the value of the whole, has no truth value
growth_raises(c, fd) ==
    \/ fd.revenue_growth.series
    \/ /\ fd.revenue_growth.v >= c.thresholds.min_revenue_growth
       /\ fd.profit_growth.series

\* the fundamental score of an iteration: the three conditional expressions
\* are evaluated in turn and the first whose condition has no truth value
\* raises
fundamental_score(c, fd) ==
    IF c.enable_fundamental_filter
    THEN IF fd.roe.series \/ growth_raises(c, fd) \/ fd.cash_flow.series
         THEN Raised
         ELSE LET roe_score == IF fd.roe.v >= c.thresholds.min_roe THEN 1 ELSE 0
                  growth_score ==
                      IF fd.revenue_growth.v >= c.thresholds.min_revenue_growth
                         /\ fd.profit_growth.v >= c.thresholds.min_profit_growth
                      THEN 1 ELSE 0
                  cash_score ==
                      IF fd.cash_flow.v >= c.thresholds.min_cash_flow THEN 1 ELSE 0
              IN  Returned(((roe_score + growth_score + cash_score) * ScoreScale)
                              \div 3)
    ELSE Returned(ScoreScale \div 2)

composite_score(c, tech, fund) ==
    IF c.signal_type = "multifactor"
    THEN (tech * 6 + fund * 4) \div 10
    ELSE tech

(* -------------------------------- rows -------------------------------- *)

\* a row of hist_data as the initialisation of the strategy columns leaves it
InitRow(in) ==
    [ close |-> in.close, MA_fast |-> in.ma[1], MA_slow |-> in.ma[2],
      BB_lower |-> in.band[1], BB_upper |-> in.band[2],
      signal |-> 0, position |-> 0, buy_price |-> 0,
      stop_loss_price |-> 0, take_profit_price |-> 0,
      trailing_stop_price |-> 0, risk_signal |-> 0,
      tech_score |-> 0, fund_score |-> 0, composite_score |-> 0 ]

\* the columns of row i-1 that iteration i and the return accounting read
PrevColumns(r) ==
    [ close |-> r.close, MA_fast |-> r.MA_fast, MA_slow |-> r.MA_slow,
      signal |-> r.signal, position |-> r.position, buy_price |-> r.buy_price,
      stop_loss_price |-> r.stop_loss_price,
      take_profit_price |-> r.take_profit_price,
      trailing_stop_price |-> r.trailing_stop_price ]

(* ------------------------ risk-management check ----------------------- *)

\* the level the trailing-stop branch writes to row i
TrailingUpdate(p, close, c) ==
    LET new_trailing_stop == close * (Scale - c.risk.trailing_stop_percent)
    IN  IF new_trailing_stop > p.trailing_stop_price
        THEN new_trailing_stop
        ELSE p.trailing_stop_price

\* cumulative_return <= -max_drawdown_limit, for buy_price > 0
DrawdownHit(p, close, c) ==
    close * Scale <= p.buy_price * (Scale - c.risk.max_drawdown_limit)

\* RiskCheck with the take-profit comparison strict
RiskCheck_StrictTakeProfit(p, close, c) ==
    IF p.position > 0 /\ p.buy_price > 0
    THEN IF c.enable_trailing_stop
         THEN LET level == TrailingUpdate(p, close, c)
              IN  IF close * Scale <= level
                  THEN [risk_signal |-> 4, trailing_stop_price |-> level]
                  ELSE IF DrawdownHit(p, close, c)
                       THEN [risk_signal |-> 3, trailing_stop_price |-> level]
                       ELSE [risk_signal |-> 0, trailing_stop_price |-> level]
         ELSE IF close * Scale <= p.stop_loss_price
              THEN [risk_signal |-> 1, trailing_stop_price |-> 0]
              ELSE IF close * Scale > p.take_profit_price
                   THEN [risk_signal |-> 2, trailing_stop_price |-> 0]
                   ELSE IF DrawdownHit(p, close, c)
                        THEN [risk_signal |-> 3, trailing_stop_price |-> 0]
                        ELSE [risk_signal |-> 0, trailing_stop_price |-> 0]
    ELSE [risk_signal |-> 0, trailing_stop_price |-> 0]

\* RiskCheck with the fixed stops also evaluated when the trailing stop is
\* enabled and did not fire
RiskCheck_BothBranches(p, close, c) ==
    IF p.position > 0 /\ p.buy_price > 0
    THEN LET level == IF c.enable_trailing_stop
                      THEN TrailingUpdate(p, close, c) ELSE 0
         IN  IF c.enable_trailing_stop /\ close * Scale <= level
             THEN [risk_signal |-> 4, trailing_stop_price |-> level]
             ELSE IF close * Scale <= p.stop_loss_price
                  THEN [risk_signal |-> 1, trailing_stop_price |-> level]
                  ELSE IF close * Scale >= p.take_profit_price
                       THEN [risk_signal |-> 2, trailing_stop_price |-> level]
                       ELSE IF DrawdownHit(p, close, c)
                            THEN [risk_signal |-> 3, trailing_stop_price |-> level]
                            ELSE [risk_signal |-> 0, trailing_stop_price |-> level]
    ELSE [risk_signal |-> 0, trailing_stop_price |-> 0]

\* RiskCheck with the drawdown limit evaluated before the stops
RiskCheck_DrawdownFirst(p, close, c) ==
    IF p.position > 0 /\ p.buy_price > 0
    THEN LET level == IF c.enable_trailing_stop
                      THEN TrailingUpdate(p, close, c) ELSE 0
         IN  IF DrawdownHit(p, close, c)
             THEN [risk_signal |-> 3, trailing_stop_price |-> level]
             ELSE IF c.enable_trailing_stop
                  THEN IF close * Scale <= level
                       THEN [risk_signal |-> 4, trailing_stop_price |-> level]
                       ELSE [risk_signal |-> 0, trailing_stop_price |-> level]
                  ELSE IF close * Scale <= p.stop_loss_price
                       THEN [risk_signal |-> 1, trailing_stop_price |-> 0]
                       ELSE IF close * Scale >= p.take_profit_price
                            THEN [risk_signal |-> 2, trailing_stop_price |-> 0]
                            ELSE [risk_signal |-> 0, trailing_stop_price |-> 0]
    ELSE [risk_signal |-> 0, trailing_stop_price |-> 0]

\* the risk code of day i (0: the check lets the day through) and what the
\* check leaves in the trailing-stop column of row i
RiskCheck(p, close, c) ==
    IF p.position > 0 /\ p.buy_price > 0
    THEN IF c.enable_trailing_stop
         THEN LET level == TrailingUpdate(p, close, c)
              IN  IF close * Scale <= level
                  THEN [risk_signal |-> 4, trailing_stop_price |-> level]
                  ELSE IF DrawdownHit(p, close, c)
                       THEN [risk_signal |-> 3, trailing_stop_price |-> level]
                       ELSE [risk_signal |-> 0, trailing_stop_price |-> level]
         ELSE IF close * Scale <= p.stop_loss_price
              THEN [risk_signal |-> 1, trailing_stop_price |-> 0]
              ELSE IF close * Scale >= p.take_profit_price
                   THEN [risk_signal |-> 2, trailing_stop_price |-> 0]
                   ELSE IF DrawdownHit(p, close, c)
                        THEN [risk_signal |-> 3, trailing_stop_price |-> 0]
                        ELSE [risk_signal |-> 0, trailing_stop_price |-> 0]
    ELSE [risk_signal |-> 0, trailing_stop_price |-> 0]

(* -------------------------- signal generation ------------------------- *)

\* Entry with the take-profit level on the wrong side of the close
Entry_TakeProfitBelow(r, c) ==
    [ r EXCEPT !.signal = 1,
               !.position = EntryPosition(c),
               !.buy_price = r.close,
               !.stop_loss_price = r.close * (Scale - c.risk.stop_loss),
               !.take_profit_price = r.close * (Scale - c.risk.take_profit),
               !.trailing_stop_price =
                   IF c.enable_trailing_stop
                   THEN r.close * (Scale - c.risk.trailing_stop_percent)
                   ELSE @ ]

\* a new long entry at the close of row r
Entry(r, c) ==
    [ r EXCEPT !.signal = 1,
               !.position = EntryPosition(c),
               !.buy_price = r.close,
               !.stop_loss_price = r.close * (Scale - c.risk.stop_loss),
               !.take_profit_price = r.close * (Scale + c.risk.take_profit),
               !.trailing_stop_price =
                   IF c.enable_trailing_stop
                   THEN r.close * (Scale - c.risk.trailing_stop_percent)
                   ELSE @ ]

\* signal and position forced to 0; the other columns stay as they are
Flat(r) == [ r EXCEPT !.signal = 0, !.position = 0 ]

\* variant: the trailing level raised by the risk check is kept
CarryForward_RaisedTrailing(p, r, sig) ==
    [ r EXCEPT !.signal = sig,
               !.position = p.position,
               !.buy_price = p.buy_price,
               !.stop_loss_price = p.stop_loss_price,
               !.take_profit_price = p.take_profit_price ]

\* the six columns copied from row i-1, with the given signal
CarryForward(p, r, sig) ==
    [ r EXCEPT !.signal = sig,
               !.position = p.position,
               !.buy_price = p.buy_price,
               !.stop_loss_price = p.stop_loss_price,
               !.take_profit_price = p.take_profit_price,
               !.trailing_stop_price = p.trailing_stop_price ]

\* CrossoverBranch buying on the crossing alone, whatever the score
CrossoverBranch_NoScoreGate(p, r, c) ==
    LET buy_condition == p.MA_fast <= p.MA_slow /\ r.MA_fast > r.MA_slow
        sell_condition == p.MA_fast >= p.MA_slow /\ r.MA_fast < r.MA_slow
    IN  IF buy_condition
        THEN Entry(r, c)
        ELSE IF sell_condition
             THEN Flat(r)
             ELSE CarryForward(p, r, p.signal)

CrossoverBranch(p, r, c) ==
    LET buy_condition == p.MA_fast <= p.MA_slow /\ r.MA_fast > r.MA_slow
        sell_condition == p.MA_fast >= p.MA_slow /\ r.MA_fast < r.MA_slow
    IN  IF buy_condition /\ r.composite_score >= 150
        THEN Entry(r, c)
        ELSE IF sell_condition
             THEN Flat(r)
             ELSE CarryForward(p, r, p.signal)

\* TrendBranch re-entering at the close of every long day
TrendBranch_AlwaysReset(p, r, c) ==
    IF r.MA_fast > r.MA_slow /\ r.composite_score >= 150
    THEN Entry(r, c)
    ELSE Flat(r)

TrendBranch(p, r, c) ==
    IF r.MA_fast > r.MA_slow /\ r.composite_score >= 150
    THEN IF p.signal = 0
         THEN Entry(r, c)
         ELSE CarryForward(p, r, 1)
    ELSE Flat(r)

\* MultiFactorBranch without the dead zone: flat below the entry threshold
MultiFactorBranch_NoDeadZone(p, r, c) ==
    IF r.composite_score >= 210
    THEN IF p.signal = 0
         THEN Entry(r, c)
         ELSE CarryForward(p, r, 1)
    ELSE Flat(r)

MultiFactorBranch(p, r, c) ==
    IF r.composite_score >= 210
    THEN IF p.signal = 0
         THEN Entry(r, c)
         ELSE CarryForward(p, r, 1)
    ELSE IF r.composite_score <= 90
         THEN Flat(r)
         ELSE CarryForward(p, r, p.signal)

(* ------------------------- one loop iteration -------------------------- *)

\* StrategyRow without the `continue` of the risk events: the branch of the
\* signal type runs on every day and the risk code is recorded with it
StrategyRow_NoContinue(p, in, day, col, c) ==
    LET tech == tech_score(InitRow(in), day, col)
        fund == fundamental_score(c, in.fd).value
        check == RiskCheck(p, in.close, c)
        r == [ InitRow(in) EXCEPT
                 !.tech_score = tech,
                 !.fund_score = fund,
                 !.composite_score = composite_score(c, tech, fund),
                 !.trailing_stop_price = check.trailing_stop_price,
                 !.risk_signal = check.risk_signal ]
    IN  IF c.signal_type = "crossover"
        THEN CrossoverBranch(p, r, c)
        ELSE IF c.signal_type = "trend"
             THEN TrendBranch(p, r, c)
             ELSE MultiFactorBranch(p, r, c)

\* row `day` after the iteration: scores, risk check, then, unless a risk
\* event ended the iteration, the branch of the signal type
\* variant: the risk check runs before the scores, which a risk event skips
StrategyRow_RiskFirst(p, in, day, col, c) ==
    LET tech == tech_score(InitRow(in), day, col)
        fund == fundamental_score(c, in.fd).value
        check == RiskCheck(p, in.close, c)
        r == [ InitRow(in) EXCEPT
                 !.tech_score = tech,
                 !.fund_score = fund,
                 !.composite_score = composite_score(c, tech, fund),
                 !.trailing_stop_price = check.trailing_stop_price ]
    IN  IF check.risk_signal # 0
        THEN [ Flat(InitRow(in)) EXCEPT
                 !.risk_signal = check.risk_signal,
                 !.trailing_stop_price = check.trailing_stop_price ]
        ELSE IF c.signal_type = "crossover"
             THEN CrossoverBranch(p, r, c)
             ELSE IF c.signal_type = "trend"
                  THEN TrendBranch(p, r, c)
                  ELSE MultiFactorBranch(p, r, c)

StrategyRow(p, in, day, col, c) ==
    LET tech == tech_score(InitRow(in), day, col)
        fund == fundamental_score(c, in.fd).value
        check == RiskCheck(p, in.close, c)
        r == [ InitRow(in) EXCEPT
                 !.tech_score = tech,
                 !.fund_score = fund,
                 !.composite_score = composite_score(c, tech, fund),
                 !.trailing_stop_price = check.trailing_stop_price ]
    IN  IF check.risk_signal # 0
        THEN [ Flat(r) EXCEPT !.risk_signal = check.risk_signal ]
        ELSE IF c.signal_type = "crossover"
             THEN CrossoverBranch(p, r, c)
             ELSE IF c.signal_type = "trend"
                  THEN TrendBranch(p, r, c)
                  ELSE MultiFactorBranch(p, r, c)

(* --------------------- transaction costs and returns ------------------- *)

\* a float that may be NaN
NaN == [nan |-> TRUE, v |-> 0]
Num(x) == [nan |-> FALSE, v |-> x]

Abs(x) == IF x < 0 THEN -x ELSE x

\* the columns of a row that the steps after the loop read
TableRow(r) ==
    [ close |-> r.close, signal |-> r.signal, position |-> r.position,
      risk_signal |-> r.risk_signal ]

\* hist_data['信号'].diff().abs(): NaN in the first row
signal_change(t) ==
    [ j \in 1..Len(t) |->
        IF j = 1 THEN NaN ELSE Num(Abs(t[j].signal - t[j - 1].signal)) ]

\* variant: a cost on every day the position is held
transaction_cost_WhileLong(t) ==
    [ j \in 1..Len(t) |->
        IF t[j].signal = 1
        THEN commission_rate + slippage_rate + Abs(t[j].signal * stamp_tax_rate)
        ELSE 0 ]

\* variant: the stamp tax on the day the position is sold
transaction_cost_StampOnExit(t) ==
    LET change == signal_change(t)
    IN  [ j \in 1..Len(t) |->
            IF ~change[j].nan /\ change[j].v > 0
            THEN commission_rate + slippage_rate
                   + Abs((1 - t[j].signal) * stamp_tax_rate)
            ELSE 0 ]

\* the column 交易成本, in 1/CostScale: 0.0, then the rows with
\* signal_change > 0 (false for NaN) are assigned
transaction_cost(t) ==
    LET change == signal_change(t)
    IN  [ j \in 1..Len(t) |->
            IF ~change[j].nan /\ change[j].v > 0
            THEN commission_rate + slippage_rate
                   + Abs(t[j].signal * stamp_tax_rate)
            ELSE 0 ]

\* hist_data['收盘'].pct_change(), in 1/RetScale: NaN in the first row
pct_change(t) ==
    [ j \in 1..Len(t) |->
        IF j = 1 THEN NaN
        ELSE Num(((t[j].close - t[j - 1].close) * RetScale) \div t[j - 1].close) ]

\* variant: the signal and position of the day itself
strategy_return_NoLag(t, ret) ==
    [ j \in 1..Len(t) |->
        IF j = 1 \/ ret[j].nan THEN NaN
        ELSE Num(t[j].signal * ret[j].v * t[j].position) ]

\* 信号.shift(1) * 收益率 * 仓位.shift(1), in 1/NetScale: the shifted columns
\* are NaN in the first row
strategy_return(t, ret) ==
    [ j \in 1..Len(t) |->
        IF j = 1 \/ ret[j].nan THEN NaN
        ELSE Num(t[j - 1].signal * ret[j].v * t[j - 1].position) ]

\* 策略收益 - 交易成本, in 1/NetScale
net_return(strat, cost) ==
    [ j \in 1..Len(strat) |->
        IF strat[j].nan THEN NaN
        ELSE Num(strat[j].v - cost[j] * (NetScale \div CostScale)) ]

\* (1 + net).cumprod(): NaN where net is NaN, else the product of the
\* factors 1 + net of the rows up to j that are not NaN.  The product is
\* kept as the sequence of its factors, each in 1/NetScale.
RECURSIVE Factors(_, _)
Factors(net, j) ==
    IF j = 0 THEN <<>>
    ELSE IF net[j].nan THEN Factors(net, j - 1)
         ELSE Append(Factors(net, j - 1), NetScale + net[j].v)

cumprod(net) ==
    [ j \in 1..Len(net) |->
        IF net[j].nan THEN [nan |-> TRUE, factors |-> <<>>]
        ELSE [nan |-> FALSE, factors |-> Factors(net, j)] ]

NoAccounts ==
    [ cost |-> <<>>, ret |-> <<>>, strat |-> <<>>, net |-> <<>>, equity |-> <<>> ]

(* ------------------------------ the run -------------------------------- *)

\* the values kelly and mc keep where the functions are not applied
NoCall ==
    [ step |-> "idle", method |-> "none", win_rate |-> 0, avg_win |-> 0,
      avg_loss |-> 0, out |-> [raised |-> FALSE, value |-> 0] ]
NoSimulation ==
    [ returns |-> <<>>, simulations |-> 0,
      ambient |-> <<[seed |-> 0, pos |-> 0], [seed |-> 0, pos |-> 0]>>,
      shuffled |-> <<<<>>, <<>>>>, mc_results |-> <<<<>>, <<>>>> ]
NoPortfolio ==
    [ step |-> "idle", basket |-> <<>>, fetched |-> <<>>, k |-> 0,
      portfolio_results |-> <<>>, portfolio_df |-> <<>> ]
\* the number 1 in the unit of the net returns, which are whole tenths
ReturnUnit == 10
NoFigures ==
    [ annual_return |-> [nan |-> TRUE, num |-> 0, den |-> 1],
      volatility |-> "nan", sharpe_ratio |-> "zero",
      max_drawdown |-> [nan |-> TRUE, num |-> 0, den |-> 1],
      calmar_ratio |-> "zero", win_rate |-> [num |-> 0, den |-> 1],
      avg_win |-> [num |-> 0, den |-> 1], avg_loss |-> [num |-> ReturnUnit, den |-> 1],
      profit_loss_ratio |-> "zero", zero_divisor |-> FALSE ]
NoAnalytics == [ step |-> "idle", net |-> <<>>, out |-> NoFigures ]
NoAtr == [ step |-> "idle" ]
\* no risk check of a single day under way
NoRisk ==
    [ step |-> "idle", buy |-> 0, close |-> 0, trailing |-> FALSE,
      risk |-> [stop_loss |-> 0, take_profit |-> 0, max_drawdown_limit |-> 0,
                trailing_stop_percent |-> 0],
      err_stop |-> 0, err_return |-> 0, code |-> 0 ]
\* get_stock_data_with_retry not called
NoFetch ==
    [ step |-> "idle", max_retries |-> 0, method |-> 1, attempt |-> 0,
      calls |-> <<0, 0, 0>>, last |-> "none", last_attempt |-> 0,
      last_sleep |-> 0, slept |-> 0, warnings |-> 0, result |-> "none" ]
NoSnapshot ==
    [ step |-> "idle", report |-> ProviderError, thresholds |-> DefaultThresholds,
      fd |-> get_fundamental_data(ProviderError), filter |-> "passed",
      day_report |-> ProviderError,
      day_fd |-> get_fundamental_data(ProviderError), score |-> Returned(0) ]
AuxIdle ==
    /\ pf = NoPortfolio
    /\ perf = NoAnalytics
    /\ ta = NoAtr
    /\ fsnap = NoSnapshot
    /\ fetch = NoFetch
    /\ rk = NoRisk
FnIdle ==
    /\ kelly = NoCall
    /\ mc = NoSimulation
    /\ AuxIdle

\* the values the variables of RunSpec keep in Spec
RunIdle ==
    /\ raw = [rows |-> 0, bad |-> 0, text_close |-> FALSE, missing |-> "none",
              lookback |-> 0]
    /\ nrows = 0
    /\ cols = {}
    /\ msgs = {}
    /\ tbl = <<>>
    /\ acct = NoAccounts


\* get_fundamental_data is called only when the filter is enabled
FundInputs(c) ==
    IF c.enable_fundamental_filter
    THEN FundSnapshots
    ELSE { get_fundamental_data(ProviderError) }

RowInputs(c) == { in \in Inputs : in.fd \in FundInputs(c) }

\* the table after dropna and the initialisation of the strategy columns, the
\* loop about to start: row 0 keeps the initial columns (it is never scored,
\* so no snapshot is requested for it); prev has no row to hold before the
\* first iteration and holds row 0
Init ==
    /\ cfg \in Configs
    /\ pc = "loop"
    /\ i = 0
    /\ \E in \in RowInputs([enable_fundamental_filter |-> FALSE]) :
          /\ cur = InitRow(in)
          /\ prev = PrevColumns(InitRow(in))
    /\ atr \in { <<a>> : a \in AtrValues(0) }
    /\ RunIdle
    /\ FnIdle

\* iteration i+1 of `for i in range(1, len(hist_data))`, row i+1 drawn from
\* ins and its ATR from atrs
\* the comparison of a Series raises in the fundamental score: the row has
\* its technical score and nothing else, and the handler of the run reports
\* the failure
IterateBody(ins, atrs) ==
    /\ pc = "loop"
    /\ \E in \in ins, a \in atrs :
          /\ atr' = Append(atr, a)
          /\ IF fundamental_score(cfg, in.fd).raised
             THEN /\ cur' = [ InitRow(in) EXCEPT
                                !.tech_score = tech_score(InitRow(in), i + 1, atr') ]
                  /\ pc' = "failed"
             ELSE /\ cur' = StrategyRow(PrevColumns(cur), in, i + 1, atr', cfg)
                  /\ pc' = pc
    /\ prev' = PrevColumns(cur)
    /\ i' = i + 1
    /\ UNCHANGED cfg

\* the iteration on a table of at most MaxDays + 1 rows
IterateRow(ins) ==
    /\ i < MaxDays
    /\ IterateBody(ins, AtrValues(i + 1))

Iterate == IterateRow(RowInputs(cfg)) /\ UNCHANGED <<runVars, fnVars>>

\* row i was the last row of the table
EndLoop ==
    /\ pc = "loop"
    /\ pc' = "done"
    /\ UNCHANGED <<cfg, i, prev, cur, atr>>
    /\ UNCHANGED <<runVars, fnVars>>

Next == Iterate \/ EndLoop

Spec == Init /\ [][Next]_vars

(* --------------------------- the whole run ---------------------------- *)

\* The table get_stock_data_with_retry returned: its number of rows, the
\* number of rows holding a price that is not a number, whether that is a
\* text in the column 收盘 (else a NaN, or a text in another price column),
\* the required column it lacks, and the number of leading rows whose
\* indicators are NaN (the longest indicator window less one).
Lookbacks == {MinBars - 3, MinBars - 2, MinBars - 1}

RawTables ==
    { t \in [ rows : {0, MinBars - 1, MinBars, MinBars + 1},
              bad : {0, 1},
              text_close : BOOLEAN,
              missing : {"none", "close", "volume"},
              lookback : Lookbacks ] :
        /\ t.bad <= t.rows
        /\ t.text_close => t.bad = 1 /\ t.missing # "close" }

required_columns == {"date", "open", "high", "low", "close", "volume"}
IndicatorColumns == {"MA_fast", "MA_slow", "ATR", "BB_upper", "BB_middle", "BB_lower"}
StrategyColumns ==
    { "signal", "position", "buy_price", "stop_loss_price", "take_profit_price",
      "trailing_stop_price", "risk_signal", "tech_score", "fund_score",
      "composite_score" }
ReturnColumns == {"return", "strategy_return", "net_return", "equity"}
BenchmarkColumns == {"benchmark_return", "benchmark_equity"}
\* the benchmark of the run: the stock itself, an index whose bars
\* get_benchmark_data returns, an index whose request raises
Benchmarks == {"stock", "index", "index_raises"}

\* the configurations RunSpec runs
RunConfigs ==
    { c \in Configs :
        /\ ~c.enable_fundamental_filter
        /\ c.position_sizing_method = "kelly"
        /\ c.risk.max_position_size = 800 }

\* the row the loop variables hold while the table has no strategy columns
NoRow ==
    InitRow([close |-> 0, ma |-> <<0, 0>>, band |-> <<0, 0>>,
             fd |-> get_fundamental_data(ProviderError)])

\* the button was pressed and the table fetched
RunInit ==
    /\ cfg \in RunConfigs
    /\ pc = "validate"
    /\ raw \in RawTables
    /\ nrows = raw.rows
    /\ cols = required_columns \ {raw.missing}
    /\ msgs = {}
    /\ i = 0
    /\ cur = NoRow
    /\ prev = PrevColumns(NoRow)
    /\ atr = <<>>
    /\ tbl = <<>>
    /\ acct = NoAccounts
    /\ FnIdle

\* variant: the result of dropna is not kept
rows_after_dropna_KeepAll(n, bad) == n

\* len(hist_data) after to_numeric(errors='coerce') and dropna(subset=prices)
rows_after_dropna(n, bad) == n - bad

\* the checks of the fetched table, the coercion of the numeric columns and
\* the removal of the rows whose prices are NaN
Validate ==
    /\ pc = "validate"
    /\ IF nrows = 0
       THEN /\ msgs' = msgs \cup {"no_data"}
            /\ pc' = "done"
            /\ nrows' = nrows
       ELSE IF ~(required_columns \subseteq cols)
       THEN /\ msgs' = msgs \cup {"missing_columns"}
            /\ pc' = "returns"
            /\ nrows' = nrows
       ELSE IF nrows < MinBars
       THEN /\ msgs' = msgs \cup {"insufficient_data"}
            /\ pc' = "returns"
            /\ nrows' = nrows
       ELSE /\ nrows' = rows_after_dropna(nrows, raw.bad)
            /\ pc' = IF nrows' >= MinBars THEN "indicators" ELSE "returns"
            /\ msgs' = msgs
    /\ UNCHANGED <<cfg, i, prev, cur, atr, raw, cols, tbl, acct, fnVars>>

\* the indicator columns, dropna().reset_index(drop=True), and the
\* strategy columns at their initial values; row 0 is the first row left
Indicators ==
    /\ pc = "indicators"
    /\ nrows' = Max(0, nrows - raw.lookback)
    /\ cols' = cols \cup IndicatorColumns \cup StrategyColumns
    /\ \E in \in RowInputs(cfg) :
          /\ cur' = InitRow(in)
          /\ prev' = PrevColumns(InitRow(in))
    /\ atr' \in { <<a>> : a \in AtrValues(0) }
    /\ tbl' = <<TableRow(cur')>>
    /\ pc' = "loop"
    /\ UNCHANGED <<cfg, i, raw, msgs, acct, fnVars>>

\* iteration i+1 of the loop over the table of nrows rows
RunIterate ==
    /\ i + 1 < nrows
    /\ IterateRow(RowInputs(cfg))
    /\ tbl' = Append(tbl, TableRow(cur'))
    /\ UNCHANGED <<raw, nrows, cols, msgs, acct, fnVars>>

\* variant: an open position is closed on the last row before the costs
TransactionCost_ClosingStep ==
    /\ pc = "loop"
    /\ i + 1 >= nrows
    /\ cur' = Flat(cur)
    /\ tbl' = [tbl EXCEPT ![Len(tbl)] = TableRow(Flat(cur))]
    /\ acct' = [acct EXCEPT !.cost = transaction_cost(tbl')]
    /\ cols' = cols \cup {"cost"}
    /\ pc' = "returns"
    /\ UNCHANGED <<cfg, i, prev, atr, raw, nrows, msgs, fnVars>>

\* the loop is over: the column 交易成本
TransactionCost ==
    /\ pc = "loop"
    /\ i + 1 >= nrows
    /\ acct' = [acct EXCEPT !.cost = transaction_cost(tbl)]
    /\ cols' = cols \cup {"cost"}
    /\ pc' = "returns"
    /\ UNCHANGED <<cfg, i, prev, cur, atr, raw, nrows, msgs, tbl, fnVars>>

\* the validation chain stopped before the numeric columns were coerced
NotCoerced == msgs \cap {"missing_columns", "insufficient_data"} # {}

\* The four return columns, assigned one after the other after the
\* validation chain, whichever branch it took, and the two benchmark
\* columns.  A column that is read and missing raises KeyError, and
\* pct_change of a column 收盘 that holds a text raises TypeError; the
\* handler of the run reports either.  get_benchmark_data warns when the
\* request of the index raises, and the stock stands in for the index.
\* The values of a table without strategy columns are not kept.
Returns ==
    /\ pc = "returns"
    /\ IF "close" \notin cols \/ (NotCoerced /\ raw.text_close)
       THEN /\ msgs' = msgs \cup {"backtest_failed"}
            /\ pc' = "done"
            /\ UNCHANGED <<cols, acct>>
       ELSE IF ~({"signal", "position"} \subseteq cols)
       THEN /\ cols' = cols \cup {"return"}
            /\ msgs' = msgs \cup {"backtest_failed"}
            /\ pc' = "done"
            /\ UNCHANGED acct
       ELSE LET ret == pct_change(tbl)
                strat == strategy_return(tbl, ret)
                net == net_return(strat, acct.cost)
            IN  /\ acct' = [ cost |-> acct.cost, ret |-> ret, strat |-> strat,
                             net |-> net, equity |-> cumprod(net) ]
                /\ cols' = cols \cup ReturnColumns \cup BenchmarkColumns
                /\ pc' = "stats"
                /\ \E b \in Benchmarks :
                      msgs' = IF b = "index_raises"
                              THEN msgs \cup {"benchmark_warning"}
                              ELSE msgs
    /\ UNCHANGED <<cfg, i, prev, cur, atr, raw, nrows, tbl, fnVars>>

RunNext == Validate \/ Indicators \/ RunIterate \/ TransactionCost \/ Returns

RunSpec == RunInit /\ [][RunNext]_vars

\* every step of the run ends: the script runs from top to bottom
FairRunSpec == RunSpec /\ WF_vars(RunNext)

(* ------------------- the position-sizing functions -------------------- *)

\* the values the variables of the loop keep where no table is back-tested
LoopIdle ==
    /\ cfg = [ signal_type |-> "crossover", enable_trailing_stop |-> FALSE,
               position_sizing_method |-> "fixed",
               enable_fundamental_filter |-> FALSE,
               thresholds |-> DefaultThresholds,
               risk |-> [stop_loss |-> 100, take_profit |-> 300,
                         max_drawdown_limit |-> 200,
                         trailing_stop_percent |-> 100,
                         max_position_size |-> 800] ]
    /\ pc = "idle"
    /\ i = 0
    /\ cur = NoRow
    /\ prev = PrevColumns(NoRow)
    /\ atr = <<>>

\* arguments in 1/Scale
WinRates == {0, 300, 500, 700, 1000}
AvgWins == {0, 50, 100, 200}
AvgLosses == {0, 50, 100}

KellyInit ==
    /\ kelly \in { [NoCall EXCEPT !.win_rate = w, !.avg_win = g, !.avg_loss = l] :
                     w \in WinRates, g \in AvgWins, l \in AvgLosses }
    /\ mc = NoSimulation
    /\ AuxIdle
    /\ LoopIdle
    /\ RunIdle

\* calculate_kelly_position(win_rate, avg_win, avg_loss)
KellyCall ==
    /\ kelly.step = "idle"
    /\ kelly' = [kelly EXCEPT
                    !.step = "returned", !.method = "kelly_position",
                    !.out = calculate_kelly_position(kelly.win_rate,
                                                     kelly.avg_win,
                                                     kelly.avg_loss)]
    /\ UNCHANGED <<loopVars, runVars, mc, pf, perf, ta, fsnap, fetch, rk>>

\* calculate_position_size(method, win_rate, avg_win, avg_loss,
\*                         risk_per_trade, capital)
PositionSizeCall ==
    /\ kelly.step = "idle"
    /\ \E method \in SizingMethods :
          kelly' = [kelly EXCEPT
                      !.step = "returned", !.method = method,
                      !.out = calculate_position_size(method, kelly.win_rate,
                                                      kelly.avg_win,
                                                      kelly.avg_loss,
                                                      risk_per_trade,
                                                      initial_capital)]
    /\ UNCHANGED <<loopVars, runVars, mc, pf, perf, ta, fsnap, fetch, rk>>

KellyNext == KellyCall \/ PositionSizeCall

KellySpec == KellyInit /\ [][KellyNext]_vars

(* ------------------------ the Monte Carlo loop ------------------------ *)

\* Returns are whole percents and a cumulative return over n days is in
\* 1/PercentScale^n, so that the products are exact.
PercentScale == 100

\* sample(frac=1, random_state=sim) takes the rows at
\* RandomState(sim).permutation(n), and unseeded those of the global
\* generator.  RandomState is the Mersenne Twister MT19937 of numpy: a
\* state of StateWords words of 32 bits, seeded from an int by init_genrand,
\* regenerated by the twist, each output a tempered word.  A word is kept as
\* its two halves of 16 bits, <<high, low>>.
Half == 65536
StateWords == 624
TwistOffset == 397

RECURSIVE BitXor(_, _)
BitXor(a, b) ==
    IF a = 0 THEN b
    ELSE IF b = 0 THEN a
    ELSE ((a + b) % 2) + 2 * BitXor(a \div 2, b \div 2)

RECURSIVE BitAnd(_, _)
BitAnd(a, b) ==
    IF a = 0 \/ b = 0 THEN 0
    ELSE (a % 2) * (b % 2) + 2 * BitAnd(a \div 2, b \div 2)

xor32(u, w) == <<BitXor(u[1], w[1]), BitXor(u[2], w[2])>>
and32(u, w) == <<BitAnd(u[1], w[1]), BitAnd(u[2], w[2])>>

\* u >> k and (u << k) mod 2^32, for 0 < k < 32
shr32(u, k) ==
    IF k >= 16
    THEN <<0, u[1] \div 2 ^ (k - 16)>>
    ELSE <<u[1] \div 2 ^ k, (u[1] % 2 ^ k) * 2 ^ (16 - k) + u[2] \div 2 ^ k>>
shl32(u, k) ==
    IF k >= 16
    THEN <<(u[2] * 2 ^ (k - 16)) % Half, 0>>
    ELSE <<(u[1] * 2 ^ k + u[2] \div 2 ^ (16 - k)) % Half, (u[2] * 2 ^ k) % Half>>

\* a * b mod 2^16, the products kept below 2^31
MulMod16(a, b) == (a * (b % 256) + ((a * (b \div 256)) % 256) * 256) % Half

\* (1812433253 * u + j) mod 2^32; 1812433253 is 27655 * 2^16 + 35173
seed_step(u, j) ==
    LET A == (u[2] % 256) * 35173
        B == (u[2] \div 256) * 35173
        t == A + (B % 256) * 256 + j
        carry == t \div Half + B \div 256
    IN  <<(carry + MulMod16(u[1], 35173) + MulMod16(u[2], 27655)) % Half, t % Half>>

\* mt with its next n words: mt[j] = 1812433253 * (mt[j-1] ^ (mt[j-1] >> 30)) + j
RECURSIVE init_words(_, _)
init_words(mt, n) ==
    IF n = 0 THEN mt
    ELSE IF n = 1
    THEN LET last == mt[Len(mt)]
         IN  Append(mt, seed_step(xor32(last, shr32(last, 30)), Len(mt)))
    ELSE LET first == init_words(mt, n \div 2)
         IN  IF Len(first) > 0 THEN init_words(first, n - n \div 2) ELSE first

\* the state of a generator seeded with the int s; word j is at place j + 1
init_genrand(s) == init_words(<< <<s \div Half, s % Half>> >>, StateWords - 1)

\* word k of the regenerated state, k < StateWords - TwistOffset: the top
\* bit of mt[k] and the low 31 bits of mt[k+1], shifted right and combined
\* with mt[k + TwistOffset] and, for an odd y, with 0x9908b0df
twist(mt, k) ==
    LET y == <<BitAnd(mt[k + 1][1], 32768) + BitAnd(mt[k + 2][1], 32767),
               mt[k + 2][2]>>
        mag == IF y[2] % 2 = 1 THEN <<39176, 45279>> ELSE <<0, 0>>
    IN  xor32(xor32(mt[k + TwistOffset + 1], shr32(y, 1)), mag)

\* the tempering of an output, with the masks 0x9d2c5680 and 0xefc60000
temper(y0) ==
    LET y1 == xor32(y0, shr32(y0, 11))
        y2 == xor32(y1, and32(shl32(y1, 7), <<40236, 22144>>))
        y3 == xor32(y2, and32(shl32(y2, 15), <<61382, 0>>))
    IN  xor32(y3, shr32(y3, 18))

\* output k (from 0) of the generator seeded with s
genrand_int32(s, k) == temper(twist(init_genrand(s), k))

\* the first n outputs of the state mt
RECURSIVE outputs(_, _)
outputs(mt, n) ==
    IF n = 0 THEN <<>> ELSE Append(outputs(mt, n - 1), temper(twist(mt, n - 1)))

\* the first StreamLen outputs of the seeds 0..s, computed once
RECURSIVE Tabulate(_)
Tabulate(s) ==
    IF s < 0 THEN <<>>
    ELSE Append(Tabulate(s - 1), outputs(init_genrand(s), StreamLen))
Streams == Tabulate(MaxSims)

\* A generator is kept as the seed it was made from and the number of
\* outputs drawn since.
RandomState(seed) == [seed |-> seed, pos |-> 0]

\* the next output of the generator x, drawn before the state is
\* regenerated a second time
next_uint32(x) ==
    IF x.seed <= MaxSims /\ x.pos < StreamLen
    THEN Streams[x.seed + 1][x.pos + 1]
    ELSE genrand_int32(x.seed, x.pos)

\* the smallest 2^k - 1 that is at least max
RECURSIVE Mask(_)
Mask(max) == IF max = 0 THEN 0 ELSE 2 * Mask(max \div 2) + 1

\* a number of 0..max, max < 2^16: outputs are masked and drawn again
\* until one is at most max
RECURSIVE random_interval(_, _)
random_interval(x, max) ==
    IF max = 0 THEN [value |-> 0, state |-> x]
    ELSE LET value == next_uint32(x)[2] % (Mask(max) + 1)
             drawn == [x EXCEPT !.pos = @ + 1]
         IN  IF value <= max THEN [value |-> value, state |-> drawn]
             ELSE random_interval(drawn, max)

\* variant: a draw with replacement, the value at b is copied and not moved
Swap_Copy(q, a, b) == [q EXCEPT ![b] = q[a]]

Swap(q, a, b) == [q EXCEPT ![a] = q[b], ![b] = q[a]]

\* the shuffle of the first k places of q: for i from k - 1 down to 1, the
\* places i and random_interval(i) are exchanged
RECURSIVE shuffle(_, _, _)
shuffle(q, k, x) ==
    IF k <= 1 THEN [x |-> q, state |-> x]
    ELSE LET j == random_interval(x, k - 1)
         IN  shuffle(Swap(q, j.value + 1, k), k - 1, j.state)

\* permutation(n): arange(n) shuffled
permutation(n, x) == shuffle([k \in 1..n |-> k - 1], n, x)

\* the random_state argument of sample(): an int, or None
Seeded(seed) == [given |-> TRUE, seed |-> seed]
Unseeded == [given |-> FALSE, seed |-> 0]

\* the rows of the series at the places locs
take(series, locs) == [k \in 1..Len(locs) |-> series[locs[k] + 1]]

\* strategy_returns.sample(frac=1, random_state=...).reset_index(drop=True):
\* with a seed a new generator made from it, without one the global
\* generator of the process
sample(series, random_state, global_state) ==
    IF random_state.given
    THEN take(series, permutation(Len(series), RandomState(random_state.seed)).x)
    ELSE take(series, permutation(Len(series), global_state).x)

\* the global generator after the call
global_after(series, random_state, global_state) ==
    IF random_state.given THEN global_state
    ELSE permutation(Len(series), global_state).state

\* variant: no random_state is passed
simulation_seed_None(sim) == Unseeded

\* random_state=sim
simulation_seed(sim) == Seeded(sim)

RECURSIVE Product(_)
Product(q) ==
    IF q = <<>> THEN 1 ELSE (PercentScale + Head(q)) * Product(Tail(q))

\* variant: the value of the equity curve one row before the last
terminal_return_BeforeLast(q) ==
    Product(SubSeq(q, 1, Len(q) - 1)) * PercentScale - PercentScale ^ Len(q)

\* (1 + shuffled_returns).cumprod().iloc[-1] - 1, in 1/PercentScale^Len
terminal_return(q) == Product(q) - PercentScale ^ Len(q)

\* mc_mean (as the sum of the outcomes; the mean is the sum over their
\* number) and mc_prob_positive (as the number of positive outcomes)
mc_statistics(results) ==
    [ total |-> SeqSum(results),
      positive |-> Cardinality({ k \in 1..Len(results) : results[k] > 0 }),
      simulations |-> Len(results) ]

DailyReturns == {-10, 10, 20}
ReturnSeries == UNION { [1..n -> DailyReturns] : n \in 2..MaxReturns }
\* the state of the global generator when an execution starts
GlobalStates == { [seed |-> 1, pos |-> 1], [seed |-> 2, pos |-> 3] }

\* two executions of the loop on the same series and simulation count
MCInit ==
    /\ mc \in { [NoSimulation EXCEPT !.returns = r, !.simulations = n,
                                      !.ambient = <<a, b>>] :
                  r \in ReturnSeries, n \in 1..MaxSims,
                  a \in GlobalStates, b \in GlobalStates }
    /\ kelly = NoCall
    /\ AuxIdle
    /\ LoopIdle
    /\ RunIdle

\* one iteration of `for sim in range(mc_simulations)` in execution e
Simulate(e) ==
    LET sim == Len(mc.mc_results[e])
        shuffled_returns ==
            sample(mc.returns, simulation_seed(sim), mc.ambient[e])
    IN  /\ sim < mc.simulations
        /\ mc' = [mc EXCEPT
                     !.shuffled[e] = Append(@, shuffled_returns),
                     !.mc_results[e] = Append(@, terminal_return(shuffled_returns)),
                     !.ambient[e] = global_after(mc.returns, simulation_seed(sim), @)]
        /\ UNCHANGED <<loopVars, runVars, kelly, pf, perf, ta, fsnap, fetch, rk>>

SimulateFirst == Simulate(1)
SimulateSecond == Simulate(2)

MCNext == SimulateFirst \/ SimulateSecond

MCSpec == MCInit /\ [][MCNext]_vars

(* -------------------------- the portfolio loop ------------------------ *)

\* the longest list of stock codes
MaxBasket == 3

Symbols == {"000001", "000002", "000858"}

\* the lists of more than one line: every non-empty line of the text area
\* is kept, a code entered twice included
Baskets == UNION { [1..n -> Symbols] : n \in 2..MaxBasket }

\* What becomes of one code: ak.stock_zh_a_hist raises, returns None or an
\* empty table, or returns a table on which the computation raises (a
\* missing column, no row left after dropna) or yields an annualised
\* return, in 1/Scale.
Answers ==
    { [kind |-> kd, annual |-> 0] :
        kd \in {"fetch_raises", "none", "empty", "compute_raises"} }
      \cup { [kind |-> "ok", annual |-> r] : r \in {0, 200} }

\* `except: continue`: the loop goes on with the next code
except_continue(kind) == "loop"

PortfolioInit ==
    /\ pf \in { [NoPortfolio EXCEPT !.step = "loop", !.basket = b, !.fetched = f] :
                  b \in Baskets, f \in UNION { [1..n -> Answers] : n \in 2..MaxBasket } }
    /\ Len(pf.basket) = Len(pf.fetched)
    /\ kelly = NoCall
    /\ mc = NoSimulation
    /\ perf = NoAnalytics
    /\ ta = NoAtr
    /\ fsnap = NoSnapshot
    /\ fetch = NoFetch
    /\ rk = NoRisk
    /\ LoopIdle
    /\ RunIdle

\* one iteration of `for stock in portfolio_stocks`
PortfolioStock ==
    /\ pf.step = "loop"
    /\ pf.k < Len(pf.basket)
    /\ LET stock == pf.basket[pf.k + 1]
           answer == pf.fetched[pf.k + 1]
       IN  pf' =
             IF answer.kind \in {"fetch_raises", "compute_raises"}
             THEN [pf EXCEPT !.k = @ + 1, !.step = except_continue(answer.kind)]
             ELSE IF answer.kind \in {"none", "empty"}
             THEN [pf EXCEPT !.k = @ + 1]
             ELSE [pf EXCEPT !.k = @ + 1,
                             !.portfolio_results =
                                 Append(@, [stock |-> stock, annual |-> answer.annual])]
    /\ UNCHANGED <<loopVars, runVars, kelly, mc, perf, ta, fsnap, fetch, rk>>

\* the orders sort_values('年化收益', ascending=False) may give: the order
\* of equal returns is not fixed
sort_values(q) ==
    { [j \in 1..Len(q) |-> q[p[j]]] :
        p \in { f \in [1..Len(q) -> 1..Len(q)] :
                  /\ \A a, c \in 1..Len(q) : a # c => f[a] # f[c]
                  /\ \A a \in 1..(Len(q) - 1) : q[f[a]].annual >= q[f[a + 1]].annual } }

\* after the loop: the ranking, if there is a result
PortfolioRank ==
    /\ pf.step = "loop"
    /\ pf.k = Len(pf.basket)
    /\ IF pf.portfolio_results # <<>>
       THEN \E df \in sort_values(pf.portfolio_results) :
                pf' = [pf EXCEPT !.step = "ranked", !.portfolio_df = df]
       ELSE pf' = [pf EXCEPT !.step = "ranked"]
    /\ UNCHANGED <<loopVars, runVars, kelly, mc, perf, ta, fsnap, fetch, rk>>

PortfolioNext == PortfolioStock \/ PortfolioRank

PortfolioSpec == PortfolioInit /\ [][PortfolioNext]_vars

(* --------------------- the rising-series scenario --------------------- *)

\* closes that never fall; the highest is less than 30% above the lowest,
\* so that no take-profit level is reached
ScenarioCloses == {50, 55, 64}
\* a band holding every close, and a band whose upper edge the highest
\* close has reached
ScenarioBands == {<<40, 140>>, <<40, 64>>}

ScenarioConfigs ==
    { c \in Configs :
        /\ c.signal_type = "crossover"
        /\ c.position_sizing_method = "fixed"
        /\ ~c.enable_fundamental_filter
        /\ c.risk.take_profit = 300 }

\* the rows that may follow a row whose close is `close`
ScenarioInputs(close) ==
    { in \in [ close : ScenarioCloses, ma : MAPairs, band : ScenarioBands,
               fd : FundInputs([enable_fundamental_filter |-> FALSE]) ] :
        in.close >= close }

ScenarioInit ==
    /\ cfg \in ScenarioConfigs
    /\ pc = "loop"
    /\ i = 0
    /\ \E in \in ScenarioInputs(0) :
          /\ cur = InitRow(in)
          /\ prev = PrevColumns(InitRow(in))
    /\ atr \in { <<a>> : a \in AtrValues(0) }
    /\ tbl = <<cur>>
    /\ raw = [rows |-> 0, bad |-> 0, text_close |-> FALSE, missing |-> "none",
              lookback |-> 0]
    /\ nrows = 0
    /\ cols = {}
    /\ msgs = {}
    /\ acct = NoAccounts
    /\ FnIdle

\* iteration i+1 of the loop on a row whose close is not below the last
ScenarioIterate ==
    /\ IterateRow(ScenarioInputs(cur.close))
    /\ tbl' = Append(tbl, cur')
    /\ UNCHANGED <<raw, nrows, cols, msgs, acct, fnVars>>

\* row i was the last row of the table
ScenarioEnd ==
    /\ pc = "loop"
    /\ pc' = "done"
    /\ UNCHANGED <<cfg, i, prev, cur, atr, runVars, fnVars>>

ScenarioNext == ScenarioIterate \/ ScenarioEnd

ScenarioSpec == ScenarioInit /\ [][ScenarioNext]_vars

(* --------------- the risk check in floating-point arithmetic ---------- *)

\* The levels and the return of the risk check are floating-point numbers.
\* The stop-loss level is the rounded product current_price * (1 - stop_loss)
\* and the return the rounded current_price / prev_buy_price - 1: two
\* expressions that are equal as real numbers may differ by a rounding
\* error.  A value is kept in units of 1/Ulps of the exact scale, and a
\* rounding error is one such unit, smaller than any difference of two
\* values that differ as real numbers.
Ulps == 4
RoundingErrors == {-1, 0, 1}

RoundingRisks ==
    { [stop_loss |-> 100, take_profit |-> 300, max_drawdown_limit |-> 100,
       trailing_stop_percent |-> 100],
      [stop_loss |-> 100, take_profit |-> 300, max_drawdown_limit |-> 200,
       trailing_stop_percent |-> 100],
      [stop_loss |-> 300, take_profit |-> 300, max_drawdown_limit |-> 300,
       trailing_stop_percent |-> 100],
      [stop_loss |-> 200, take_profit |-> 300, max_drawdown_limit |-> 100,
       trailing_stop_percent |-> 100] }

\* the entry price of the day before and the close of the day
RoundingBuys == {90, 100}
RoundingCloses == {50, 63, 70, 80, 90, 95, 117, 130}

\* hist_data.loc[i-1, '止损价格']: current_price * (1 - stop_loss) of the
\* entry day, as rounded
rounded_stop_loss(buy, risk, e) == buy * (Scale - risk.stop_loss) * Ulps + e

\* cumulative_return <= -max_drawdown_limit, the return as rounded
rounded_drawdown_hit(buy, close, risk, e) ==
    close * Scale * Ulps + e <= buy * (Scale - risk.max_drawdown_limit) * Ulps

\* new_trailing_stop of the day
close_level(r) == r.close * (Scale - r.risk.trailing_stop_percent)

\* the risk code of the day after an entry at `buy`
rounded_risk_code(r) ==
    IF r.trailing
    THEN LET level == Max(close_level(r), r.buy * (Scale - r.risk.trailing_stop_percent))
         IN  IF r.close * Scale <= level
             THEN 4
             ELSE IF rounded_drawdown_hit(r.buy, r.close, r.risk, r.err_return)
                  THEN 3 ELSE 0
    ELSE IF r.close * Scale * Ulps <= rounded_stop_loss(r.buy, r.risk, r.err_stop)
         THEN 1
         ELSE IF r.close * Scale >= r.buy * (Scale + r.risk.take_profit)
              THEN 2
              ELSE IF rounded_drawdown_hit(r.buy, r.close, r.risk, r.err_return)
                   THEN 3 ELSE 0

RoundingInit ==
    /\ rk \in [ step : {"entered"}, buy : RoundingBuys, close : RoundingCloses,
                trailing : BOOLEAN, risk : RoundingRisks,
                err_stop : RoundingErrors, err_return : RoundingErrors,
                code : {0} ]
    /\ kelly = NoCall
    /\ mc = NoSimulation
    /\ pf = NoPortfolio
    /\ perf = NoAnalytics
    /\ ta = NoAtr
    /\ fsnap = NoSnapshot
    /\ fetch = NoFetch
    /\ LoopIdle
    /\ RunIdle

\* the risk check of the day after the entry
RoundingCheck ==
    /\ rk.step = "entered"
    /\ rk' = [rk EXCEPT !.step = "checked", !.code = rounded_risk_code(rk)]
    /\ UNCHANGED <<loopVars, runVars, kelly, mc, pf, perf, ta, fsnap, fetch>>

RoundingNext == RoundingCheck

RoundingSpec == RoundingInit /\ [][RoundingNext]_vars

(* ---------------------- get_stock_data_with_retry --------------------- *)

\* the three lambdas of `methods`, by position
Methods == 1..3

\* what one call of a provider method does: a non-empty table, an empty
\* one, None, or an exception
Outcomes == {"data", "empty", "none", "raise"}

\* variant: the sleep follows the last attempt of a method too
backoff_EveryAttempt(outcome, attempt, max_retries) ==
    IF outcome = "raise" THEN 2 ^ attempt ELSE 0

\* the seconds slept after a call: 2 ** attempt after an exception on an
\* attempt that is not the last of its method
backoff(outcome, attempt, max_retries) ==
    IF outcome = "raise" /\ attempt < max_retries - 1 THEN 2 ^ attempt ELSE 0

\* st.warning, on an exception of the last attempt of a method
warned(outcome, attempt, max_retries) ==
    IF outcome = "raise" /\ attempt >= max_retries - 1 THEN 1 ELSE 0

\* the next (method, attempt) of the two nested for loops
next_call(method, attempt, max_retries) ==
    IF attempt + 1 < max_retries
    THEN [method |-> method, attempt |-> attempt + 1]
    ELSE [method |-> method + 1, attempt |-> 0]

RetryInit ==
    /\ fetch \in { [NoFetch EXCEPT !.step = "trying", !.max_retries = m] :
                     m \in 1..MaxRetries }
    /\ rk = NoRisk
    /\ kelly = NoCall
    /\ mc = NoSimulation
    /\ pf = NoPortfolio
    /\ perf = NoAnalytics
    /\ ta = NoAtr
    /\ fsnap = NoSnapshot
    /\ LoopIdle
    /\ RunIdle

\* one pass of the body of the inner loop: data = method(), then the
\* return, the next attempt, or the except clause
Attempt ==
    /\ fetch.step = "trying"
    /\ fetch.method \in Methods
    /\ \E outcome \in Outcomes :
         LET nxt == next_call(fetch.method, fetch.attempt, fetch.max_retries)
             pause == backoff(outcome, fetch.attempt, fetch.max_retries)
             called == [fetch EXCEPT
                          !.calls[fetch.method] = @ + 1,
                          !.last = outcome,
                          !.last_attempt = fetch.attempt,
                          !.last_sleep = pause,
                          !.slept = @ + pause,
                          !.warnings = @ + warned(outcome, fetch.attempt,
                                                  fetch.max_retries)]
         IN  fetch' = IF outcome = "data"
                      THEN [called EXCEPT !.step = "returned", !.result = "data"]
                      ELSE [called EXCEPT !.method = nxt.method,
                                          !.attempt = nxt.attempt]
    /\ UNCHANGED <<loopVars, runVars, kelly, mc, pf, perf, ta, fsnap, rk>>

\* the outer loop is exhausted: return None
ReturnNone ==
    /\ fetch.step = "trying"
    /\ fetch.method \notin Methods
    /\ fetch' = [fetch EXCEPT !.step = "returned", !.result = "None"]
    /\ UNCHANGED <<loopVars, runVars, kelly, mc, pf, perf, ta, fsnap, rk>>

RetryNext == Attempt \/ ReturnNone

RetrySpec == RetryInit /\ [][RetryNext]_vars

\* each provider call returns or raises, and the sleep ends
FairRetrySpec == RetrySpec /\ WF_vars(RetryNext)

(* ---------------------------- calculate_atr --------------------------- *)

\* bars with high >= low and the close on either edge
AtrBars ==
    { b \in [high : {10, 12}, low : {8, 10}, close : {8, 10, 12}] :
        b.close \in {b.low, b.high} }
AtrSeries == UNION { [1..n -> AtrBars] : n \in 1..MaxBars }
AtrPeriods == {1, 2}

\* close.shift(1): NaN in row 0, the close of the row before elsewhere
shift(bars, k) == IF k = 1 THEN NaN ELSE Num(bars[k - 1].close)

\* abs(x - y) where y may be NaN
abs_diff(x, y) == IF y.nan THEN NaN ELSE Num(Abs(x - y.v))

tr1(bars, k) == Num(bars[k].high - bars[k].low)
tr2(bars, k) == abs_diff(bars[k].high, shift(bars, k))
tr3(bars, k) == abs_diff(bars[k].low, shift(bars, k))

\* max(axis=1) of one row: the NaN cells are skipped, and the result is NaN
\* only if every cell is
row_max(cells) ==
    LET defined == { c \in cells : ~c.nan }
    IN  IF defined = {}
        THEN NaN
        ELSE Num(CHOOSE m \in { c.v : c \in defined } :
                    \A c \in defined : c.v <= m)

\* pd.concat([tr1, tr2, tr3], axis=1).max(axis=1)
true_range(bars) ==
    [ k \in 1..Len(bars) |->
        row_max({tr1(bars, k), tr2(bars, k), tr3(bars, k)}) ]

\* tr.rolling(window=period).mean(): NaN unless the window holds `period`
\* values, none of them NaN; the mean is kept as the fraction num / den
rolling_mean(tr, period) ==
    [ k \in 1..Len(tr) |->
        IF k < period \/ \E j \in (k - period + 1)..k : tr[j].nan
        THEN [nan |-> TRUE, num |-> 0, den |-> period]
        ELSE [nan |-> FALSE,
              num |-> SeqSum([j \in 1..period |-> tr[k - period + j].v]),
              den |-> period] ]

calculate_atr(bars, period) == rolling_mean(true_range(bars), period)

AtrInit ==
    /\ ta \in [ step : {"input"}, bars : AtrSeries, period : AtrPeriods,
                tr : {<<>>}, atr : {<<>>} ]
    /\ kelly = NoCall
    /\ mc = NoSimulation
    /\ pf = NoPortfolio
    /\ perf = NoAnalytics
    /\ fsnap = NoSnapshot
    /\ fetch = NoFetch
    /\ rk = NoRisk
    /\ LoopIdle
    /\ RunIdle

AtrCall ==
    /\ ta.step = "input"
    /\ ta' = [ta EXCEPT !.step = "done",
                        !.tr = true_range(ta.bars),
                        !.atr = calculate_atr(ta.bars, ta.period)]
    /\ UNCHANGED <<loopVars, runVars, kelly, mc, pf, perf, fsnap, fetch, rk>>

AtrNext == AtrCall

AtrSpec == AtrInit /\ [][AtrNext]_vars

(* ------------------- the loop around the ATR window ------------------- *)

\* the ATR of rows 0..19: one value throughout, but for any of rows 0, 1
\* and 19, which hold the other value
AtrPrefixes ==
    { [j \in 1..AtrLookback |-> IF j \in S THEN 3 - b ELSE b] :
        b \in {1, 2}, S \in SUBSET {1, 2, AtrLookback} }

\* rows whose close is on an edge of the band or inside it, and whose fast
\* average is equal to the slow one or above it
WindowInputs ==
    [ close : {100}, ma : {<<10, 10>>, <<11, 10>>},
      band : {<<40, 140>>, <<100, 140>>, <<40, 100>>},
      fd : FundInputs([enable_fundamental_filter |-> FALSE]) ]

WindowConfigs ==
    { c \in Configs :
        /\ c.signal_type = "multifactor"
        /\ ~c.enable_trailing_stop
        /\ c.position_sizing_method = "fixed"
        /\ ~c.enable_fundamental_filter
        /\ c.risk.take_profit = 300 }

\* the loop has done iteration 19 on a table never entered so far
WindowInit ==
    /\ cfg \in WindowConfigs
    /\ pc = "loop"
    /\ i = AtrLookback - 1
    /\ atr \in AtrPrefixes
    /\ \E before \in WindowInputs, in \in WindowInputs :
          /\ prev = PrevColumns(InitRow(before))
          /\ cur = StrategyRow(PrevColumns(InitRow(before)), in, i, atr, cfg)
    /\ RunIdle
    /\ FnIdle

WindowIterate ==
    /\ i < AtrLookback - 1 + MaxWindowDays
    /\ IterateBody(WindowInputs, {1, 2})
    /\ UNCHANGED <<runVars, fnVars>>

WindowNext == WindowIterate

WindowSpec == WindowInit /\ [][WindowNext]_vars

(* ----------------------- performance analytics ------------------------ *)

\* Net returns are whole tenths (ReturnUnit), and the equity of a table of n returns is
\* in 1/ReturnUnit^n on every row, so that the figures are exact fractions
\* num / den with den > 0.  A quotient whose value is not needed is kept as
\* its sign ("neg", "zero", "pos") or "nan".
TradingDays == 252

AnalyticsReturns == {-1, 0, 1, 2}

\* the column 策略收益_after_fee of a table: NaN on row 0, then a return a row
NetColumns ==
    { <<NaN>> \o [j \in 1..Len(r) |-> Num(r[j])] :
        r \in UNION { [1..m -> AnalyticsReturns] : m \in 0..MaxReturns } }

\* column.dropna(), as the sequence of its values
RECURSIVE dropna(_)
dropna(col) ==
    IF col = <<>> THEN <<>>
    ELSE IF Head(col).nan THEN dropna(Tail(col))
         ELSE <<Head(col).v>> \o dropna(Tail(col))

\* 累计收益 = (1 + net).cumprod(): NaN where net is NaN
RECURSIVE equity_to(_, _)
equity_to(net, j) ==
    IF j = 0 THEN 1
    ELSE IF net[j].nan THEN equity_to(net, j - 1)
         ELSE (ReturnUnit + net[j].v) * equity_to(net, j - 1)

Defined(net, j) == Cardinality({ k \in 1..j : ~net[k].nan })

cumulative_returns(net) ==
    [ j \in 1..Len(net) |->
        IF net[j].nan THEN NaN
        ELSE Num(equity_to(net, j)
                   * ReturnUnit ^ (Defined(net, Len(net)) - Defined(net, j))) ]

\* cumulative_returns.expanding().max(): NaN until a value is defined
RECURSIVE running_max(_, _)
running_max(eq, j) ==
    IF j = 0 THEN NaN
    ELSE LET before == running_max(eq, j - 1)
         IN  IF eq[j].nan THEN before
             ELSE IF before.nan THEN eq[j]
             ELSE Num(Max(before.v, eq[j].v))

\* drawdown = (cumulative_returns - running_max) / running_max
drawdown(eq) ==
    [ j \in 1..Len(eq) |->
        IF eq[j].nan \/ running_max(eq, j).nan \/ running_max(eq, j).v = 0
        THEN [nan |-> TRUE, num |-> 0, den |-> 1]
        ELSE [nan |-> FALSE, num |-> eq[j].v - running_max(eq, j).v,
              den |-> running_max(eq, j).v] ]

\* drawdown.min(): the least defined value, NaN if there is none
min_fraction(col) ==
    LET defined == { j \in 1..Len(col) : ~col[j].nan }
    IN  IF defined = {} THEN [nan |-> TRUE, num |-> 0, den |-> 1]
        ELSE col[CHOOSE j \in defined :
                   \A k \in defined :
                       col[j].num * col[k].den <= col[k].num * col[j].den]

Sign(x) == IF x < 0 THEN "neg" ELSE IF x = 0 THEN "zero" ELSE "pos"

\* annual_return = (累计收益.iloc[-1] - 1) * 252 / len(hist_data)
annual_return(net) ==
    LET eq == cumulative_returns(net)
        last == eq[Len(eq)]
    IN  IF last.nan THEN [nan |-> TRUE, num |-> 0, den |-> 1]
        ELSE [nan |-> FALSE,
              num |-> (last.v - ReturnUnit ^ Defined(net, Len(net))) * TradingDays,
              den |-> Len(net) * ReturnUnit ^ Defined(net, Len(net))]

\* log_returns.std() * sqrt(252): NaN with fewer than two returns, 0 when
\* all are equal
annual_volatility(returns) ==
    IF Len(returns) < 2 THEN "nan"
    ELSE IF \A j \in 1..Len(returns) : returns[j] = returns[1] THEN "zero"
    ELSE "pos"

\* (annual_return - risk_free_rate) / annual_volatility if annual_volatility > 0 else 0
sharpe_ratio(annual, volatility) ==
    IF volatility = "pos"
    THEN IF annual.nan THEN "nan" ELSE "quotient"
    ELSE "zero"

\* variant: the division without the test of max_drawdown
calmar_ratio_NoGuard(annual, mdd) ==
    IF annual.nan \/ mdd.nan THEN "nan"
    ELSE IF mdd.num = 0 THEN "divided_by_zero"
    ELSE Sign(annual.num)

\* annual_return / abs(max_drawdown) if max_drawdown != 0 else 0; NaN != 0
\* is true
calmar_ratio(annual, mdd) ==
    IF mdd.nan \/ mdd.num # 0
    THEN IF annual.nan \/ mdd.nan THEN "nan" ELSE Sign(annual.num)
    ELSE "zero"

Positive(returns) == SelectSeq(returns, LAMBDA x : x > 0)
Negative(returns) == SelectSeq(returns, LAMBDA x : x < 0)
NonZero(returns) == SelectSeq(returns, LAMBDA x : x # 0)

\* variant: the division without the test of total_trades
win_rate_NoGuard(returns) ==
    [ num |-> Len(Positive(returns)), den |-> Len(NonZero(returns)) ]

\* winning_trades / total_trades if total_trades > 0 else 0
win_rate(returns) ==
    IF Len(NonZero(returns)) > 0
    THEN [ num |-> Len(Positive(returns)), den |-> Len(NonZero(returns)) ]
    ELSE [ num |-> 0, den |-> 1 ]

\* the mean of the winning returns, 0 if there is none
avg_win(returns) ==
    IF Len(Positive(returns)) > 0
    THEN [ num |-> SeqSum(Positive(returns)), den |-> Len(Positive(returns)) ]
    ELSE [ num |-> 0, den |-> 1 ]

\* the size of the mean of the losing returns; if there is none the number
\* 1, which is ReturnUnit in the unit of the returns
avg_loss(returns) ==
    IF Len(Negative(returns)) > 0
    THEN [ num |-> Abs(SeqSum(Negative(returns))), den |-> Len(Negative(returns)) ]
    ELSE [ num |-> ReturnUnit, den |-> 1 ]

\* avg_win / avg_loss if avg_loss > 0 else 0
profit_loss_ratio(win, loss) ==
    IF loss.num > 0 THEN Sign(win.num) ELSE "zero"

AnalyticsInit ==
    /\ perf \in { [NoAnalytics EXCEPT !.step = "returns", !.net = col] :
                    col \in NetColumns }
    /\ kelly = NoCall
    /\ mc = NoSimulation
    /\ pf = NoPortfolio
    /\ ta = NoAtr
    /\ fsnap = NoSnapshot
    /\ fetch = NoFetch
    /\ rk = NoRisk
    /\ LoopIdle
    /\ RunIdle

\* the figures, from strategy_returns to profit_loss_ratio
Analytics ==
    /\ perf.step = "returns"
    /\ LET strategy_returns == dropna(perf.net)
           annual == annual_return(perf.net)
           volatility == annual_volatility(strategy_returns)
           mdd == min_fraction(drawdown(cumulative_returns(perf.net)))
           calmar == calmar_ratio(annual, mdd)
           wr == win_rate(strategy_returns)
           win == avg_win(strategy_returns)
           loss == avg_loss(strategy_returns)
       IN  perf' = [perf EXCEPT
                      !.step = "figures",
                      !.out = [ annual_return |-> annual,
                                volatility |-> volatility,
                                sharpe_ratio |-> sharpe_ratio(annual, volatility),
                                max_drawdown |-> mdd,
                                calmar_ratio |-> calmar,
                                win_rate |-> wr,
                                avg_win |-> win,
                                avg_loss |-> loss,
                                profit_loss_ratio |-> profit_loss_ratio(win, loss),
                                zero_divisor |->
                                    \/ calmar = "divided_by_zero"
                                    \/ wr.den = 0 \/ win.den = 0 \/ loss.den = 0 ]]
    /\ UNCHANGED <<loopVars, runVars, kelly, mc, pf, ta, fsnap, fetch, rk>>

AnalyticsNext == Analytics

AnalyticsSpec == AnalyticsInit /\ [][AnalyticsNext]_vars

(* ----------------------- the fundamental snapshot --------------------- *)

\* the answers of the provider: an error, or a report with any of the columns
FundReports == { ProviderError } \cup { Report(cs) : cs \in SUBSET FundColumns }

\* thresholds below, at and above the defaults of get_fundamental_data,
\* each within the range of its number input
ThresholdGrid ==
    [ min_roe : {14, 15, 16}, min_revenue_growth : {9, 10, 11},
      min_profit_growth : {14, 15, 16}, min_cash_flow : {9, 10, 11} ]

\* the condition of the advisory filter, `a < m or b < n or ...`: the
\* operands are evaluated in turn up to the first that is true, and an
\* operand that is a Series has no truth value
filter_condition(c, fd) ==
    IF fd.roe.series THEN "raises"
    ELSE IF fd.roe.v < c.thresholds.min_roe THEN "true"
    ELSE IF fd.revenue_growth.series THEN "raises"
    ELSE IF fd.revenue_growth.v < c.thresholds.min_revenue_growth THEN "true"
    ELSE IF fd.profit_growth.series THEN "raises"
    ELSE IF fd.profit_growth.v < c.thresholds.min_profit_growth THEN "true"
    ELSE IF fd.cash_flow.series THEN "raises"
    ELSE IF fd.cash_flow.v < c.thresholds.min_cash_flow THEN "true"
    ELSE "false"

\* the advisory filter: the warning 基本面过滤 formats the four figures with
\* :.1f, which a Series does not support
fundamental_filter(c, fd) ==
    LET cond == filter_condition(c, fd)
    IN  IF cond = "raises" THEN "raises"
        ELSE IF cond = "false" THEN "passed"
        ELSE IF \E f \in FundColumns : fd[f].series THEN "raises"
        ELSE "warned"

FundInit ==
    /\ fsnap \in { [NoSnapshot EXCEPT !.report = a, !.thresholds = t] :
                      a \in FundReports, t \in ThresholdGrid }
    /\ fetch = NoFetch
    /\ rk = NoRisk
    /\ kelly = NoCall
    /\ mc = NoSimulation
    /\ pf = NoPortfolio
    /\ perf = NoAnalytics
    /\ ta = NoAtr
    /\ LoopIdle
    /\ RunIdle

\* the filter being enabled: the request before the loop and the advisory
\* filter on its answer; an exception ends the run
FundFilter ==
    /\ fsnap.step = "idle"
    /\ LET c == [enable_fundamental_filter |-> TRUE, thresholds |-> fsnap.thresholds]
           fd == get_fundamental_data(fsnap.report)
           filter == fundamental_filter(c, fd)
       IN  fsnap' = [fsnap EXCEPT
                       !.step = IF filter = "raises" THEN "failed" ELSE "filtered",
                       !.fd = fd,
                       !.filter = filter]
    /\ UNCHANGED <<loopVars, runVars, kelly, mc, pf, perf, ta, fetch, rk>>

\* the request of one iteration of the loop and the score of its answer; an
\* exception ends the run
FundScore ==
    /\ fsnap.step \in {"filtered", "scored"}
    /\ \E a \in FundReports :
          LET c == [enable_fundamental_filter |-> TRUE, thresholds |-> fsnap.thresholds]
              fd == get_fundamental_data(a)
              score == fundamental_score(c, fd)
          IN  fsnap' = [fsnap EXCEPT
                          !.step = IF score.raised THEN "failed" ELSE "scored",
                          !.day_report = a,
                          !.day_fd = fd,
                          !.score = score]
    /\ UNCHANGED <<loopVars, runVars, kelly, mc, pf, perf, ta, fetch, rk>>

FundNext == FundFilter \/ FundScore

FundSpec == FundInit /\ [][FundNext]_vars

TypeOK ==
    /\ cfg \in Configs
    /\ pc \in {"loop", "done", "failed"}
    /\ i \in 0..MaxDays
    /\ cur.signal \in {0, 1}
    /\ Len(atr) = i + 1
    /\ RunIdle
    /\ FnIdle

(* ======================= properties of the loop ======================= *)

\* iteration i ran to its end, so row i holds what the iteration records; an
\* iteration that raised in the fundamental score ends the run with the
\* failure reported and no table shown
Iterated == i >= 1 /\ pc # "failed"

\* day i has a previous day holding a position with an entry price
Held == Iterated /\ prev.position > 0 /\ prev.buy_price > 0

CloseScaled == cur.close * Scale

\* the conditions of the risk check, as the design states them
StopLossCond == CloseScaled <= prev.stop_loss_price
TakeProfitCond == CloseScaled >= prev.take_profit_price
UpdatedTrailingLevel ==
    Max(prev.trailing_stop_price,
        cur.close * (Scale - cfg.risk.trailing_stop_percent))
TrailingCond == CloseScaled <= UpdatedTrailingLevel
DrawdownCond ==
    CloseScaled <= prev.buy_price * (Scale - cfg.risk.max_drawdown_limit)

\* (a) or (b) of the active branch fired
StopBranchFired ==
    IF cfg.enable_trailing_stop THEN TrailingCond
                                ELSE StopLossCond \/ TakeProfitCond

RiskConditionMatches == StopBranchFired \/ DrawdownCond

ForcedFlat == cur.signal = 0 /\ cur.position = 0

\* the conditions of the new-signal logic
CrossBuy ==
    /\ prev.MA_fast <= prev.MA_slow
    /\ cur.MA_fast > cur.MA_slow
    /\ cur.composite_score >= 150
CrossSell == prev.MA_fast >= prev.MA_slow /\ cur.MA_fast < cur.MA_slow
TrendLong == cur.MA_fast > cur.MA_slow /\ cur.composite_score >= 150
FactorLong == cur.composite_score >= 210
FactorFlat == cur.composite_score <= 90

\* the entry/hold condition of the configured signal type holds on day i
ModeLongCondition ==
    \/ cfg.signal_type = "crossover" /\ CrossBuy
    \/ cfg.signal_type = "trend" /\ TrendLong
    \/ cfg.signal_type = "multifactor" /\ FactorLong

NoRiskEventDay == Iterated /\ cur.risk_signal = 0

\* the six carried columns of day i equal those of day i-1
SameAsPrevious ==
    /\ cur.signal = prev.signal
    /\ cur.position = prev.position
    /\ cur.buy_price = prev.buy_price
    /\ cur.stop_loss_price = prev.stop_loss_price
    /\ cur.take_profit_price = prev.take_profit_price
    /\ cur.trailing_stop_price = prev.trailing_stop_price

\* entry price and the three levels of day i equal those of day i-1
LevelsCarried ==
    /\ cur.buy_price = prev.buy_price
    /\ cur.stop_loss_price = prev.stop_loss_price
    /\ cur.take_profit_price = prev.take_profit_price
    /\ cur.trailing_stop_price = prev.trailing_stop_price

\* entry price and the levels of day i are set from the close of day i
LevelsFromClose ==
    /\ cur.buy_price = cur.close
    /\ cur.stop_loss_price = cur.close * (Scale - cfg.risk.stop_loss)
    /\ cur.take_profit_price = cur.close * (Scale + cfg.risk.take_profit)
    /\ cfg.enable_trailing_stop =>
         cur.trailing_stop_price =
             cur.close * (Scale - cfg.risk.trailing_stop_percent)

\* day i is a new long entry
NewEntry ==
    /\ NoRiskEventDay
    /\ \/ cfg.signal_type = "crossover" /\ CrossBuy
       \/ cfg.signal_type = "trend" /\ TrendLong /\ prev.signal = 0
       \/ cfg.signal_type = "multifactor" /\ FactorLong /\ prev.signal = 0

\* C1: on a day whose previous day holds a position, a matching risk
\* condition forces signal and position to 0 with a non-zero risk code and
\* leaves the entry price at 0 (no new-signal logic), also when the entry
\* condition of the signal type holds that day.
C1_RiskCheckFirst ==
    Held /\ RiskConditionMatches =>
        ForcedFlat /\ cur.risk_signal # 0 /\ cur.buy_price = 0

C1_Witness ==
    /\ Held /\ RiskConditionMatches /\ ModeLongCondition
    /\ cur.risk_signal # 0 /\ cur.signal = 0

\* C2: trailing stop disabled and a position held: a close at or below the
\* previous stop-loss level records code 1, otherwise a close at or above the
\* previous take-profit level records code 2, both with signal and position 0.
C2_FixedStops ==
    Held /\ ~cfg.enable_trailing_stop =>
        /\ StopLossCond => cur.risk_signal = 1 /\ ForcedFlat
        /\ ~StopLossCond /\ TakeProfitCond => cur.risk_signal = 2 /\ ForcedFlat

\* the close halves on the bar after an entry at stop_loss 10%
C2_Witness ==
    /\ Held /\ ~cfg.enable_trailing_stop
    /\ cfg.risk.stop_loss = 100
    /\ prev.buy_price = prev.close
    /\ 2 * cur.close = prev.close
    /\ cur.risk_signal = 1 /\ ForcedFlat

\* C3: trailing stop enabled and the position held through day i: the
\* trailing level recorded on day i is max(previous level, close*(1-pct)).
C3_TrailingRatchet ==
    Held /\ cfg.enable_trailing_stop /\ cur.risk_signal = 0 /\ cur.signal = 1 =>
        cur.trailing_stop_price = UpdatedTrailingLevel

\* C4: codes 1 and 2 are never recorded with the trailing stop enabled, code 4
\* never with it disabled.
C4_OneStopBranch ==
    /\ cfg.enable_trailing_stop => cur.risk_signal \notin {1, 2}
    /\ ~cfg.enable_trailing_stop => cur.risk_signal # 4

\* the trailing stop fires on a day that is also below the fixed stop-loss
C4_Witness ==
    /\ Held /\ cfg.enable_trailing_stop
    /\ StopLossCond /\ cur.risk_signal = 4

\* C5: when neither (a) nor (b) fired, a return since entry at or below
\* -max_drawdown_limit records code 3 with signal and position 0; code 3 is
\* never recorded on a day where (a) or (b) fired.
C5_DrawdownLimit ==
    Held =>
        /\ ~StopBranchFired /\ DrawdownCond => cur.risk_signal = 3 /\ ForcedFlat
        /\ StopBranchFired => cur.risk_signal \in {1, 2, 4}

C5_Witness ==
    Held /\ ~StopBranchFired /\ DrawdownCond /\ cur.risk_signal = 3

\* C6: crossover, no risk event: the buy condition gives a new entry at the
\* close; else the sell condition gives signal and position 0; else the six
\* carried columns equal those of the previous day.
C6_Crossover ==
    NoRiskEventDay /\ cfg.signal_type = "crossover" =>
        /\ CrossBuy => cur.signal = 1 /\ cur.buy_price = cur.close
        /\ ~CrossBuy /\ CrossSell => ForcedFlat
        /\ ~CrossBuy /\ ~CrossSell => SameAsPrevious

\* the fast MA crosses up with a score below 0.5: no entry, the flat state
\* is carried
C6_Witness ==
    /\ NoRiskEventDay /\ cfg.signal_type = "crossover"
    /\ prev.MA_fast <= prev.MA_slow /\ cur.MA_fast > cur.MA_slow
    /\ cur.composite_score < 150
    /\ cur.signal = 0

\* C7: trend following, no risk event: signal 1 iff fast MA above slow MA and
\* score >= 0.5, else signal and position 0; levels are set from the close
\* only when the previous signal is 0 and are copied when it is 1.
C7_TrendFollowing ==
    NoRiskEventDay /\ cfg.signal_type = "trend" =>
        /\ cur.signal = 1 <=> TrendLong
        /\ ~TrendLong => ForcedFlat
        /\ TrendLong /\ prev.signal = 0 => LevelsFromClose
        /\ TrendLong /\ prev.signal = 1 => LevelsCarried

\* long on both days at different closes
C7_Witness ==
    /\ NoRiskEventDay /\ cfg.signal_type = "trend"
    /\ TrendLong /\ prev.signal = 1 /\ cur.signal = 1
    /\ cur.close # prev.buy_price

\* C8: multi-factor, no risk event: score >= 0.7 gives signal 1 (levels from
\* the close only when the previous signal is 0, else carried); score <= 0.3
\* gives signal and position 0; in between the six columns are carried.
C8_MultiFactor ==
    NoRiskEventDay /\ cfg.signal_type = "multifactor" =>
        /\ FactorLong => cur.signal = 1
        /\ FactorLong /\ prev.signal = 0 => LevelsFromClose
        /\ FactorLong /\ prev.signal = 1 => LevelsCarried
        /\ FactorFlat => ForcedFlat
        /\ ~FactorLong /\ ~FactorFlat => SameAsPrevious

\* a long position kept through a day in the dead zone
C8_Witness ==
    /\ NoRiskEventDay /\ cfg.signal_type = "multifactor"
    /\ ~FactorLong /\ ~FactorFlat
    /\ prev.signal = 1 /\ cur.signal = 1

\* C9: on every new long entry the entry price is the close and the stop-loss,
\* take-profit and (when enabled) trailing levels are set from the close.
C9_EntryLevels == NewEntry => cur.signal = 1 /\ LevelsFromClose

C9_Witness ==
    /\ NewEntry /\ cfg.signal_type = "multifactor"
    /\ cfg.enable_trailing_stop
    /\ cur.trailing_stop_price =
           cur.close * (Scale - cfg.risk.trailing_stop_percent)

\* the fraction of capital the selected sizing method gives
SizingFraction(c) ==
    (calculate_position_size(c.position_sizing_method, 500, 100, 50,
                             risk_per_trade, initial_capital).value * Scale)
        \div initial_capital

\* C10: on every new long entry the position is the selected method's result
\* divided by capital and clamped to max_position_size.
C10_EntryPositionSized ==
    NewEntry => cur.position = Min(SizingFraction(cfg), cfg.risk.max_position_size)

\* C11: in every per-day state the signal is 0 or 1, the risk code is one of
\* 0..4, the position lies in [0, max_position_size] and the three scores lie
\* in [0, 1].
C11_RowRanges ==
    /\ cur.signal \in {0, 1}
    /\ cur.risk_signal \in 0..4
    /\ cur.position >= 0 /\ cur.position <= cfg.risk.max_position_size
    /\ cur.tech_score >= 0 /\ cur.tech_score <= ScoreScale
    /\ cur.fund_score >= 0 /\ cur.fund_score <= ScoreScale
    /\ cur.composite_score >= 0 /\ cur.composite_score <= ScoreScale

\* a Kelly entry whose 25% is cut down to a smaller maximum position
C11_Witness ==
    /\ NewEntry /\ cfg.position_sizing_method = "kelly"
    /\ cfg.risk.max_position_size < 250
    /\ cur.position = cfg.risk.max_position_size

(* ----------------- properties of costs and returns -------------------- *)

\* the return columns of an accepted table are computed
Accounted == pc = "stats"

SignalChanged(j) == j > 1 /\ tbl[j].signal # tbl[j - 1].signal

\* C12: the cost of a day is non-zero exactly when the signal of the day
\* differs from the signal of the day before; on the first day and on every
\* day the signal is unchanged the cost is 0 and the net return is the gross
\* return.
C12_CostOnlyOnChange ==
    Accounted =>
        \A j \in 1..Len(tbl) :
            /\ acct.cost[j] # 0 <=> SignalChanged(j)
            /\ ~SignalChanged(j) =>
                  acct.cost[j] = 0 /\ acct.net[j] = acct.strat[j]

\* a run with an entry day and, later, a day held with a gross return
C12_Witness ==
    /\ Accounted
    /\ \E j, k \in 1..Len(tbl) :
          /\ j < k
          /\ SignalChanged(j) /\ acct.cost[j] > 0
          /\ ~SignalChanged(k) /\ tbl[k].signal = 1
          /\ acct.cost[k] = 0 /\ acct.strat[k].v # 0
          /\ acct.net[k] = acct.strat[k]
    /\ acct.cost[1] = 0

\* C13: on a day the signal changes the cost is commission + slippage +
\* stamp tax * |signal|: an entry pays all three, an exit (a risk exit too)
\* pays commission and slippage only.
C13_CostComposition ==
    Accounted =>
        \A j \in 1..Len(tbl) :
            SignalChanged(j) =>
                /\ tbl[j].signal = 1 =>
                      acct.cost[j] = commission_rate + slippage_rate + stamp_tax_rate
                /\ tbl[j].signal = 0 =>
                      acct.cost[j] = commission_rate + slippage_rate

\* a run with an entry and, later, an exit forced by the risk check
C13_Witness ==
    /\ Accounted
    /\ \E j, k \in 1..Len(tbl) :
          /\ j < k
          /\ SignalChanged(j) /\ tbl[j].signal = 1
          /\ acct.cost[j] = commission_rate + slippage_rate + stamp_tax_rate
          /\ SignalChanged(k) /\ tbl[k].signal = 0 /\ tbl[k].risk_signal # 0
          /\ acct.cost[k] = commission_rate + slippage_rate

\* C14: the gross return of day j is signal[j-1] * (close[j] / close[j-1] - 1)
\* * position[j-1]: 0 when day j-1 was flat, and on an exit day the whole
\* move of the day on the position of the day before.
C14_GrossReturnLagged ==
    Accounted =>
        \A j \in 2..Len(tbl) :
            /\ ~acct.strat[j].nan
            /\ acct.strat[j].v * tbl[j - 1].close =
                  tbl[j - 1].signal * tbl[j - 1].position
                    * (tbl[j].close - tbl[j - 1].close) * RetScale
            /\ tbl[j - 1].signal = 0 => acct.strat[j].v = 0

\* a position exited on a day whose move is charged to it, and an entry day
\* with a move that is not
C14_Witness ==
    /\ Accounted
    /\ \E j, k \in 2..Len(tbl) :
          /\ tbl[j - 1].signal = 0 /\ tbl[j].signal = 1
          /\ tbl[j].close # tbl[j - 1].close /\ acct.strat[j].v = 0
          /\ tbl[k - 1].signal = 1 /\ tbl[k].signal = 0
          /\ acct.strat[k].v < 0

\* C15: the equity curve is the running product of (1 + net return) seeded
\* at 1.0, and its value on the first day is exactly 1.0.
C15_EquitySeededAtOne ==
    Accounted =>
        /\ ~acct.equity[1].nan
        /\ acct.equity[1].factors = <<>>
        /\ \A j \in 2..Len(tbl) :
              /\ ~acct.equity[j].nan
              /\ acct.equity[j].factors =
                    Append(acct.equity[j - 1].factors, NetScale + acct.net[j].v)

(* -------------------- properties of the validation -------------------- *)

ValidationMessages == {"no_data", "missing_columns", "insufficient_data"}

\* the rows of the fetched table whose prices are numbers
ValidBars == raw.rows - raw.bad

\* the run went on to the indicators
Continued == pc = "indicators" \/ IndicatorColumns \subseteq cols

\* C16: when fewer than 50 valid bars are supplied (fewer than 50 rows, or
\* fewer than 50 once the rows with non-numeric prices are removed) the run
\* ends with a validation message, and no indicator, strategy, cost or
\* return column is computed and no other failure is reported.  Stated of
\* the tables that have every required column.
C16_ShortInputRejected ==
    (raw.missing = "none" /\ ValidBars < MinBars) =>
        /\ cols \cap (IndicatorColumns \cup StrategyColumns
                         \cup {"cost"} \cup ReturnColumns) = {}
        /\ "backtest_failed" \notin msgs
        /\ pc = "done" => msgs \cap ValidationMessages # {}

\* C17 as stated: a table with a non-numeric price is a validation failure
\* shown to the user, and the run never goes on with the rows that are left.
C17_NonNumericFatal ==
    raw.bad > 0 =>
        /\ ~Continued
        /\ pc \in {"done", "stats"} => msgs \cap ValidationMessages # {}

\* C17, amended: for a table with every required column and at least 50
\* rows, the rows with a non-numeric price are dropped without a message and
\* the run goes on to the indicators, on the rows that are left, exactly
\* when at least 50 rows are left.
C17_BadRowsDropped ==
    (raw.bad > 0 /\ raw.rows >= MinBars /\ raw.missing = "none"
       /\ pc # "validate") =>
        /\ msgs \cap ValidationMessages = {}
        /\ Continued <=> ValidBars >= MinBars
        /\ pc = "indicators" => nrows = ValidBars

\* a table of 51 rows, one with a non-numeric price, back-tested to the end
\* on the 50 rows left
C17_Witness ==
    /\ raw.bad = 1 /\ raw.rows = MinBars + 1
    /\ pc = "stats" /\ msgs = {}
    /\ Len(tbl) = ValidBars - raw.lookback

(* ------------- properties of the position-sizing functions ------------ *)

KellyReturned == kelly.step = "returned" /\ kelly.method = "kelly_position"

\* C18: calculate_kelly_position with avg_loss = 0 returns exactly 0.1 for
\* every win_rate and avg_win, avg_win = 0 included, and does not raise.
C18_KellyZeroLoss ==
    (KellyReturned /\ kelly.avg_loss = 0) =>
        kelly.out = [raised |-> FALSE, value |-> 100]

\* the call with avg_loss = 0 and avg_win = 0 has returned 0.1
C18_Witness ==
    /\ KellyReturned
    /\ kelly.avg_loss = 0 /\ kelly.avg_win = 0 /\ kelly.win_rate > 0
    /\ kelly.out.value = 100

\* C19: for every (win_rate, avg_win, avg_loss), avg_win = 0 with
\* avg_loss # 0 included, calculate_kelly_position returns a value in
\* [0.1, 0.9] and raises no division by zero, and the risk-parity sizing
\* divides by no zero avg_loss.
C19_SizingNeverDividesByZero ==
    kelly.step = "returned" =>
        /\ ~kelly.out.raised
        /\ kelly.method = "kelly_position" =>
              kelly.out.value >= 100 /\ kelly.out.value <= 900

(* ------------------ properties of the Monte Carlo loop ---------------- *)

Finished(e) == Len(mc.mc_results[e]) = mc.simulations /\ mc.simulations > 0

\* C20: two executions of the Monte Carlo loop on the same return series and
\* simulation count give the same shuffles and the same outcome vector,
\* whatever the global generator of either, and so the same statistics;
\* the shuffle of simulation s is the one of a generator seeded with s.
C20_MonteCarloDeterministic ==
    /\ \A s \in 1..Min(Len(mc.mc_results[1]), Len(mc.mc_results[2])) :
          /\ mc.shuffled[1][s] = mc.shuffled[2][s]
          /\ mc.mc_results[1][s] = mc.mc_results[2][s]
    /\ \A e \in 1..2 : \A s \in 1..Len(mc.shuffled[e]) :
          mc.shuffled[e][s] =
              take(mc.returns, permutation(Len(mc.returns), RandomState(s - 1)).x)
    /\ (Finished(1) /\ Finished(2)) =>
          mc_statistics(mc.mc_results[1]) = mc_statistics(mc.mc_results[2])

\* both executions are over, they started from different global generators,
\* and two of their simulations reordered the series differently
C20_Witness ==
    /\ Finished(1) /\ Finished(2)
    /\ mc.ambient[1] # mc.ambient[2]
    /\ mc.simulations >= 2
    /\ mc.shuffled[1][1] # mc.shuffled[1][2]
    /\ mc.shuffled[1][2] # mc.returns
    /\ mc.mc_results[1] = mc.mc_results[2]

\* the number of places of q that hold v
Count(q, v) == Cardinality({ k \in 1..Len(q) : q[k] = v })

\* C21: the series of every simulation is a permutation of the return
\* series: the same length and every value as many times as in the series.
C21_ShuffleIsPermutation ==
    \A e \in 1..2 : \A s \in 1..Len(mc.shuffled[e]) :
        /\ Len(mc.shuffled[e][s]) = Len(mc.returns)
        /\ \A v \in DailyReturns :
              Count(mc.shuffled[e][s], v) = Count(mc.returns, v)

\* a simulation that reordered a series holding one value twice
C21_Witness ==
    \E s \in 1..Len(mc.shuffled[1]) :
        /\ mc.shuffled[1][s] # mc.returns
        /\ \E v \in DailyReturns : Count(mc.returns, v) = 2
        /\ \E v \in DailyReturns : Count(mc.returns, v) = 1

(* ------------------- properties of the portfolio loop ----------------- *)

\* the rows of q for the code sym
Rows(q, sym) == { j \in 1..Len(q) : q[j].stock = sym }

\* the lines of the list whose code yielded a return
Succeeded == { j \in 1..Len(pf.basket) : pf.fetched[j].kind = "ok" }

\* the lines among the first n that hold the code sym and yielded a return
SucceededLines(sym, n) == { j \in Succeeded : j <= n /\ pf.basket[j] = sym }

\* Failure isolation line by line: the loop is never aborted, every line
\* that succeeded has a row of its own with its own return, and a line that
\* failed has none and removes none.
RowPerSucceededLine ==
    /\ pf.step # "aborted"
    /\ \A sym \in Symbols :
          Cardinality(Rows(pf.portfolio_results, sym))
              = Cardinality(SucceededLines(sym, pf.k))
    /\ pf.step = "ranked" =>
          /\ pf.k = Len(pf.basket)
          /\ Len(pf.portfolio_df) = Cardinality(Succeeded)
          /\ \E place \in [Succeeded -> 1..Len(pf.portfolio_df)] :
                /\ \A a, c \in Succeeded : a # c => place[a] # place[c]
                /\ \A j \in Succeeded :
                      /\ pf.portfolio_df[place[j]].stock = pf.basket[j]
                      /\ pf.portfolio_df[place[j]].annual = pf.fetched[j].annual

\* C22: whatever codes fail (nothing fetched, or an exception in the fetch
\* or the computation), the loop is never aborted, and the ranking holds
\* exactly the codes that succeeded, each once, with its own return.
C22_FailureIsolation ==
    /\ pf.step # "aborted"
    /\ pf.step = "ranked" =>
          /\ pf.k = Len(pf.basket)
          /\ \A sym \in Symbols :
                IF SucceededLines(sym, pf.k) # {}
                THEN \E r \in 1..Len(pf.portfolio_df), j \in SucceededLines(sym, pf.k) :
                        /\ Rows(pf.portfolio_df, sym) = {r}
                        /\ pf.portfolio_df[r].annual = pf.fetched[j].annual
                ELSE Rows(pf.portfolio_df, sym) = {}

(* ----------------------- properties of the scores --------------------- *)

\* C23: with the fundamental filter enabled the fundamental score is the
\* same value on every day of the run: no iteration records a score other
\* than the one of the day before.
C23_FundScoreConstant ==
    [][ (cfg.enable_fundamental_filter /\ i' = i + 1) =>
            cur'.fund_score = cur.fund_score ]_vars

Indicator(b) == IF b THEN 1 ELSE 0

\* the mean of the three 0/1 sub-scores of the figures fd
MeanOfSubScores(fd, t) ==
    ScoreScale *
      ( Indicator(fd.roe.v >= t.min_roe)
        + Indicator(fd.revenue_growth.v >= t.min_revenue_growth
                    /\ fd.profit_growth.v >= t.min_profit_growth)
        + Indicator(fd.cash_flow.v >= t.min_cash_flow) )

\* in a run in which neither the filter nor a score raised, the score is the
\* mean of the three sub-scores and is 1 exactly when the filter did not warn
ScoreMeanWhenComputed ==
    fsnap.step = "scored" =>
        /\ fsnap.score.value * 3 = MeanOfSubScores(fsnap.day_fd, fsnap.thresholds)
        /\ fsnap.score.value
              \in {0, ScoreScale \div 3, (2 * ScoreScale) \div 3, ScoreScale}
        /\ fsnap.score.value = ScoreScale <=> fsnap.filter = "passed"

\* C24: the fundamental score is computed, the filter and the score raising
\* no exception, and it is the mean of three 0/1 sub-scores (ROE at least
\* its minimum; revenue and profit growth both at least theirs; cash flow at
\* least its minimum), so one of 0, 1/3, 2/3, 1, and it is 1 exactly when
\* the advisory filter does not flag the symbol.
C24_FundScoreMean ==
    /\ fsnap.filter # "raises"
    /\ ~fsnap.score.raised
    /\ ScoreMeanWhenComputed

(* ------------------ properties of the rising scenario ----------------- *)

\* the days the fast average crosses above the slow one
CrossDays ==
    { j \in 2..Len(tbl) :
        /\ tbl[j - 1].MA_fast <= tbl[j - 1].MA_slow
        /\ tbl[j].MA_fast > tbl[j].MA_slow }

\* the days the signal goes from 0 to 1
EntryDays == { j \in 2..Len(tbl) : tbl[j - 1].signal = 0 /\ tbl[j].signal = 1 }

\* the run is over and the fast average crossed above the slow one once
OneCrossRun == pc = "done" /\ Cardinality(CrossDays) = 1

NoRiskCode == \A j \in 1..Len(tbl) : tbl[j].risk_signal = 0

\* C25 as stated: a run in crossover mode on closes that never fall, with
\* one upward cross and stops never reached, has exactly one 0-to-1
\* transition of the signal and risk code 0 on every day.
C25_OneCrossOneEntry ==
    OneCrossRun => Cardinality(EntryDays) = 1 /\ NoRiskCode

\* C25, amended: such a run has risk code 0 on every day, and its only
\* 0-to-1 transition is on the day of the cross if the composite score of
\* that day is at least 0.5; if it is less the run has no transition.
C25_OneCrossEntryIfScored ==
    OneCrossRun =>
        /\ NoRiskCode
        /\ \A d \in CrossDays :
              EntryDays = IF tbl[d].composite_score >= ScoreScale \div 2
                          THEN {d} ELSE {}

\* a run of strictly rising closes entered on the day of the cross and held
\* for a day after it
C25_Witness ==
    /\ OneCrossRun
    /\ \A j \in 2..Len(tbl) : tbl[j].close > tbl[j - 1].close
    /\ \E d \in CrossDays :
          /\ EntryDays = {d}
          /\ d < Len(tbl)
          /\ tbl[Len(tbl)].signal = 1

(* ------------------- properties of the analytics ---------------------- *)

Figures == perf.step = "figures"

\* C26: the maximum drawdown is at most 0 for every net-return series, and
\* whenever it is not 0 the Calmar ratio has the sign of the annualised
\* return.
C26_DrawdownNotPositive ==
    Figures =>
        /\ ~perf.out.max_drawdown.nan
        /\ perf.out.max_drawdown.num <= 0
        /\ perf.out.max_drawdown.num # 0 =>
              /\ ~perf.out.annual_return.nan
              /\ perf.out.calmar_ratio = Sign(perf.out.annual_return.num)

\* C27: the figures divide by no zero: the Sharpe ratio is 0 when the
\* volatility is 0, the Calmar ratio is 0 when the maximum drawdown is 0, the
\* win rate is 0 when no return is non-zero, the average win is 0 when no
\* return is positive and the average loss is 1 (ReturnUnit tenths) when no
\* return is negative.
C27_NoDivisionByZero ==
    Figures =>
        LET returns == dropna(perf.net)
        IN  /\ ~perf.out.zero_divisor
            /\ perf.out.volatility = "zero" => perf.out.sharpe_ratio = "zero"
            /\ (~perf.out.max_drawdown.nan /\ perf.out.max_drawdown.num = 0) =>
                  perf.out.calmar_ratio = "zero"
            /\ (\A j \in 1..Len(returns) : returns[j] = 0) =>
                  perf.out.win_rate = [num |-> 0, den |-> 1]
            /\ (\A j \in 1..Len(returns) : returns[j] <= 0) =>
                  perf.out.avg_win = [num |-> 0, den |-> 1]
            /\ (\A j \in 1..Len(returns) : returns[j] >= 0) =>
                  perf.out.avg_loss = [num |-> ReturnUnit, den |-> 1]

\* three days without a return: no volatility, no drawdown, no trade
C27_Witness ==
    /\ Figures
    /\ Len(perf.net) = 4
    /\ \A j \in 2..4 : perf.net[j] = Num(0)
    /\ perf.out.volatility = "zero" /\ perf.out.sharpe_ratio = "zero"
    /\ perf.out.max_drawdown.num = 0 /\ perf.out.calmar_ratio = "zero"
    /\ perf.out.win_rate.num = 0 /\ perf.out.profit_loss_ratio = "zero"
    /\ perf.out.avg_win = [num |-> 0, den |-> 1]
    /\ perf.out.avg_loss = [num |-> ReturnUnit, den |-> 1]

(* ------------------- properties of the daily scores ------------------- *)

\* the sum of the ATR of rows first..last
RECURSIVE AtrSum(_, _)
AtrSum(first, last) ==
    IF first > last THEN 0 ELSE atr[last + 1] + AtrSum(first, last - 1)

\* C28: the technical score of day i is the mean of three 0/1 sub-scores:
\* fast MA above slow MA; close strictly between the band edges; and, from
\* day 20 on, the ATR of the day strictly above the mean of the 20 ATR values
\* of days i-20..i-1.  Before day 20 the ATR sub-score is 0.
C28_TechScore ==
    i >= 1 =>
        cur.tech_score * 3 =
            ScoreScale *
              ( Indicator(cur.MA_fast > cur.MA_slow)
                + Indicator(cur.BB_lower < cur.close /\ cur.close < cur.BB_upper)
                + Indicator(i >= 20 /\ atr[i + 1] * 20 > AtrSum(i - 20, i - 1)) )

\* day 21: the ATR of the day equals each of the 20 values before it, so the
\* sub-score is 0, while the ATR of row 0, outside the window, is lower
C28_Witness ==
    /\ i = 21
    /\ atr[i + 1] = 2
    /\ \A k \in 1..20 : atr[k + 1] = 2
    /\ atr[1] = 1
    /\ cur.MA_fast > cur.MA_slow
    /\ cur.close = cur.BB_upper
    /\ cur.tech_score = ScoreScale \div 3

\* the technical score of the current row, from its own columns
TechOfRow ==
    ScoreScale *
      ( Indicator(cur.MA_fast > cur.MA_slow)
        + Indicator(cur.BB_lower < cur.close /\ cur.close < cur.BB_upper)
        + Indicator(i >= 20 /\ atr[i + 1] * 20 > AtrSum(i - 20, i - 1)) )

\* C29: on every day i >= 1 of the loop the composite score is the technical score in
\* crossover and trend modes and 0.6 * technical + 0.4 * fundamental in
\* multi-factor mode; the fundamental score is 0.5 when the filter is off;
\* the three scores are written on days on which a risk event fires too.
C29_CompositeScore ==
    Iterated =>
        /\ cur.tech_score * 3 = TechOfRow
        /\ cfg.signal_type \in {"crossover", "trend"} =>
              cur.composite_score = cur.tech_score
        /\ cfg.signal_type = "multifactor" =>
              cur.composite_score * 10 = cur.tech_score * 6 + cur.fund_score * 4
        /\ ~cfg.enable_fundamental_filter => cur.fund_score * 2 = ScoreScale

\* a risk event in multi-factor mode on a day whose technical score is 1/3
\* and whose fundamental score is 1: the composite score written is 0.6
C29_Witness ==
    /\ Iterated
    /\ cur.risk_signal # 0
    /\ cfg.signal_type = "multifactor"
    /\ cur.tech_score * 3 = ScoreScale
    /\ cur.fund_score = ScoreScale
    /\ cur.composite_score * 10 = ScoreScale * 6

(* ----------------------- properties of the ATR ------------------------ *)

\* C30: calculate_atr returns one value per bar; the true range of day 0 is
\* undefined; the ATR is undefined at indices 0..period-1; every defined ATR
\* is >= 0 when each bar has high >= low.
C30_AtrUndefinedPrefix ==
    ta.step = "done" =>
        /\ Len(ta.atr) = Len(ta.bars)
        /\ ta.tr[1].nan
        /\ \A k \in 1..Min(ta.period, Len(ta.bars)) : ta.atr[k].nan
        /\ (\A k \in 1..Len(ta.bars) : ta.bars[k].high >= ta.bars[k].low) =>
              \A k \in 1..Len(ta.atr) : ~ta.atr[k].nan => ta.atr[k].num >= 0

(* ---------------------- properties of the retries --------------------- *)

\* what holds of a call of get_stock_data_with_retry at every point
RetrySafety ==
    /\ \A m \in Methods : fetch.calls[m] <= fetch.max_retries
    /\ fetch.calls[1] + fetch.calls[2] + fetch.calls[3] <= 3 * fetch.max_retries
    /\ \A m \in 2..3 :
          fetch.calls[m] > 0 => fetch.calls[m - 1] = fetch.max_retries
    /\ fetch.last_sleep > 0 =>
          /\ fetch.last = "raise"
          /\ fetch.last_attempt < fetch.max_retries - 1
          /\ fetch.last_sleep = 2 ^ fetch.last_attempt
    /\ fetch.last = "data" =>
          /\ fetch.step = "returned"
          /\ fetch.result = "data"
          /\ fetch.calls[fetch.method] = fetch.attempt + 1
          /\ \A m \in Methods : m > fetch.method => fetch.calls[m] = 0
    /\ fetch.step = "returned" =>
          (fetch.result = "None" <=>
              /\ fetch.last # "data"
              /\ \A m \in Methods : fetch.calls[m] = fetch.max_retries)

\* C31: the three provider methods are tried in list order, each at most
\* max_retries times; the first non-empty result is returned and nothing is
\* called after it; the function sleeps 2^attempt seconds only after an
\* exception on an attempt that is not the last of its method; it always
\* returns, and returns None when every attempt raised or gave no data.
C31_RetryInOrderAndReturns ==
    []RetrySafety /\ <>(fetch.step = "returned")

\* with max_retries = 3 the first method is exhausted, the second raises
\* once, is slept on for 1 second, and returns data on its second attempt
C31_Witness ==
    /\ fetch.step = "returned"
    /\ fetch.result = "data"
    /\ fetch.max_retries = 3
    /\ fetch.calls = <<3, 2, 0>>
    /\ fetch.slept = 1

(* ------------------- properties of the loop as a whole ---------------- *)

\* the strategy columns exist: the loop is running or has run
LoopReached == StrategyColumns \subseteq cols

\* the seed values of the strategy columns
SeedRow(r) ==
    /\ r.signal = 0 /\ r.position = 0 /\ r.buy_price = 0
    /\ r.stop_loss_price = 0 /\ r.take_profit_price = 0
    /\ r.trailing_stop_price = 0 /\ r.risk_signal = 0
    /\ r.tech_score = 0 /\ r.fund_score = 0 /\ r.composite_score = 0

\* rows 0..i are written, row 0 is flat, and once the loop is left row i is
\* the last row and is as iteration i wrote it
LoopShape ==
    LoopReached =>
        /\ Len(tbl) = i + 1
        /\ i <= nrows - 1
        /\ tbl[1].signal = 0 /\ tbl[1].position = 0 /\ tbl[1].risk_signal = 0
        /\ i = 0 => SeedRow(cur)
        /\ tbl[i + 1] = TableRow(cur)
        /\ pc # "loop" => i = nrows - 1

\* a step inside the loop moves to the next index and leaves the rows
\* written so far as they are; a step out of the loop or after it leaves
\* every row as it is
LoopStep ==
    /\ (pc = "loop" /\ pc' = "loop") =>
          /\ i' = i + 1
          /\ \A j \in 1..Len(tbl) : tbl'[j] = tbl[j]
    /\ (LoopReached /\ pc' # "loop") =>
          /\ i' = i
          /\ cur' = cur
          /\ tbl' = tbl

\* C32: the loop visits the indices 1..last once each in ascending order and
\* ends at the last row; nothing closes a position after it, so the last row
\* stays as its iteration wrote it (possibly long); row 0 keeps its seed.
C32_LoopVisitsEachDayOnce ==
    /\ []LoopShape
    /\ [][LoopStep]_vars
    /\ (pc = "loop") ~> (pc # "loop" /\ i = nrows - 1)

\* a table of at least three rows whose loop is over and whose last row is
\* long
C32_Witness ==
    /\ LoopReached
    /\ pc \in {"returns", "stats", "done"}
    /\ i = nrows - 1
    /\ i >= 2
    /\ cur.signal = 1
    /\ cur.position > 0
    /\ tbl[Len(tbl)].signal = 1

(* ---------------- properties of the Monte Carlo outcomes -------------- *)

\* the equity of the series as realized, rows 1..k compounded in their own
\* order, in 1/PercentScale^k
RECURSIVE Compound(_, _)
Compound(q, k) ==
    IF k = 0 THEN 1 ELSE Compound(q, k - 1) * (PercentScale + q[k])

\* the terminal return of the unshuffled series
Realized == Compound(mc.returns, Len(mc.returns)) - PercentScale ^ Len(mc.returns)

\* C33: in exact arithmetic every Monte Carlo outcome is the realized
\* terminal return of the unshuffled series; so the outcomes have no spread
\* (standard deviation 0, both percentiles equal to the mean) and the share
\* of positive outcomes is 0 or 1.
C33_OutcomesAllRealized ==
    \A e \in 1..2 :
        LET results == mc.mc_results[e]
            stats == mc_statistics(results)
        IN  /\ \A k \in 1..Len(results) : results[k] = Realized
            /\ \A j, k \in 1..Len(results) : results[j] = results[k]
            /\ stats.total = stats.simulations * Realized
            /\ stats.positive \in {0, stats.simulations}

\* three simulations of a series of distinct returns, shuffled into at least
\* two different orders, all with the same positive outcome
C33_Witness ==
    /\ Finished(1)
    /\ mc.simulations = 3
    /\ \E j, k \in 1..Len(mc.returns) : mc.returns[j] # mc.returns[k]
    /\ \E j, k \in 1..3 : mc.shuffled[1][j] # mc.shuffled[1][k]
    /\ \E k \in 1..3 : mc.shuffled[1][k] # mc.returns
    /\ mc_statistics(mc.mc_results[1]).positive = 3

(* ------------------ properties of the position columns ---------------- *)

\* C34: on every day the signal is 1 exactly when the position is positive
\* and exactly when the entry price is positive; on a long day the stop-loss
\* and take-profit levels are the entry price times (1 - stop_loss) and
\* (1 + take_profit), and with the trailing stop enabled the trailing level
\* is the entry price times (1 - trailing_stop_percent); on a flat day the
\* entry price and both fixed levels are 0.
C34_PositionColumnsConsistent ==
    /\ cur.signal \in {0, 1}
    /\ cur.signal = 1 <=> cur.position > 0
    /\ cur.signal = 1 <=> cur.buy_price > 0
    /\ cur.signal = 1 =>
          /\ cur.stop_loss_price = cur.buy_price * (Scale - cfg.risk.stop_loss)
          /\ cur.take_profit_price = cur.buy_price * (Scale + cfg.risk.take_profit)
          /\ cfg.enable_trailing_stop =>
                cur.trailing_stop_price =
                    cur.buy_price * (Scale - cfg.risk.trailing_stop_percent)
    /\ cur.signal = 0 =>
          /\ cur.buy_price = 0
          /\ cur.stop_loss_price = 0
          /\ cur.take_profit_price = 0

\* a position held over a day on which the close rose above the entry
\* price, with the trailing stop enabled
C34_Witness ==
    /\ i >= 2
    /\ cfg.enable_trailing_stop
    /\ cur.signal = 1
    /\ prev.signal = 1
    /\ cur.close > cur.buy_price
    /\ cur.trailing_stop_price =
          cur.buy_price * (Scale - cfg.risk.trailing_stop_percent)

\* C35: in every mode, on a day that is long after a long day, the entry
\* price, the stop-loss level and the take-profit level are those of the day
\* before: a position that is open is not entered a second time.
C35_LevelsFixedWhileLong ==
    (i >= 1 /\ prev.signal = 1 /\ cur.signal = 1) =>
        /\ cur.buy_price = prev.buy_price
        /\ cur.stop_loss_price = prev.stop_loss_price
        /\ cur.take_profit_price = prev.take_profit_price

(* ------------------- properties of the risk codes --------------------- *)

\* C36: with the trailing stop disabled and max_drawdown_limit >= stop_loss
\* the risk code 3 is never recorded: a close that far below the entry price
\* is at or below the stop-loss level, and code 1 is recorded instead.
C36_DrawdownCodeUnreachable ==
    ( /\ rk.step = "checked"
      /\ ~rk.trailing
      /\ rk.risk.max_drawdown_limit >= rk.risk.stop_loss ) =>
        rk.code # 3

\* C37: a day with a non-zero risk code closes a position: the day before is
\* long with a positive position, the day itself has signal 0, position 0,
\* and entry price, stop-loss and take-profit levels 0; the code is 0 on day
\* 0 and on every day after a flat day.
C37_RiskCodeClosesPosition ==
    /\ cur.risk_signal # 0 =>
          /\ i >= 1
          /\ prev.signal = 1
          /\ prev.position > 0
          /\ cur.signal = 0
          /\ cur.position = 0
          /\ cur.buy_price = 0
          /\ cur.stop_loss_price = 0
          /\ cur.take_profit_price = 0
    /\ i = 0 => cur.risk_signal = 0
    /\ (i >= 1 /\ prev.signal = 0) => cur.risk_signal = 0

\* a trailing-stop exit: the day before is long, the day is flat, and the
\* only level left on the row is the trailing one
C37_Witness ==
    /\ i >= 2
    /\ cur.risk_signal = 4
    /\ prev.signal = 1
    /\ cur.signal = 0
    /\ cur.trailing_stop_price > 0
    /\ cur.buy_price = 0

(* --------------- properties of the multi-factor thresholds ------------ *)

\* C38: in multi-factor mode with the fundamental filter off the composite
\* score is 0.6 * technical + 0.2; a new entry happens only on a day whose
\* three technical sub-scores are all 1, an exit by the score only on a day
\* whose three sub-scores are all 0, and with a technical score of 1/3 or
\* 2/3 the signal of the day before is kept.
C38_EntryNeedsFullTechScore ==
    ( /\ i >= 1
      /\ cfg.signal_type = "multifactor"
      /\ ~cfg.enable_fundamental_filter
      /\ cur.risk_signal = 0 ) =>
        /\ cur.composite_score * 10 = cur.tech_score * 6 + ScoreScale * 2
        /\ (prev.signal = 0 /\ cur.signal = 1) => cur.tech_score = ScoreScale
        /\ (prev.signal = 1 /\ cur.signal = 0) => cur.tech_score = 0
        /\ cur.tech_score * 3 \in {ScoreScale, ScoreScale * 2} =>
              cur.signal = prev.signal

\* a new entry from day 20 on, on a day whose three sub-scores are 1 (the
\* ATR above the mean of its window): the composite score is 0.8
C38_Witness ==
    /\ cfg.signal_type = "multifactor"
    /\ ~cfg.enable_fundamental_filter
    /\ i >= 20
    /\ prev.signal = 0
    /\ cur.signal = 1
    /\ cur.tech_score = ScoreScale
    /\ cur.composite_score * 10 = ScoreScale * 8

(* ------------------ properties of the size of the table --------------- *)

\* C39: the table the loop runs over, after the rows with undefined
\* indicators are dropped, has at least 50 rows, and the statistics find an
\* equity series with a value in it: no table that passes the 50-bar
\* validation reaches the loop or the statistics with fewer rows.
C39_LoopTableHasMinBars ==
    /\ LoopReached => nrows >= MinBars
    /\ Accounted =>
          /\ Len(acct.equity) >= MinBars
          /\ \E j \in 1..Len(acct.equity) : ~acct.equity[j].nan

============================================================================
